---- MODULE Spec2Model ----
(***************************************************************************)
(* Iron Legacy: the progression-suggestion engine (utils/progression.ts)   *)
(* and the state around a call to it.                                      *)
(*                                                                         *)
(* Weights are counted in hundredths of a kilogram, so that the engine's   *)
(* increments 2.5 kg and 1.25 kg are the integers 250 and 125.  An         *)
(* optional property of a TypeScript object (targetReps?, targetWeight?,   *)
(* setNumber?) is a field that a record has or does not have.  The         *)
(* optional argument baseline? is <<>> when it is omitted and <<list>>     *)
(* when a list is passed.  The free-text properties of a suggestion        *)
(* (message, shortMessage, reasoning) are not modelled.                    *)
(***************************************************************************)
EXTENDS Integers, Sequences, FiniteSets, TLC

(***************************************************************************)
(* Bounds of the model.                                                    *)
(***************************************************************************)
MaxSets == 2
MaxReps == 4

(***************************************************************************)
(* schema.ts                                                               *)
(***************************************************************************)
SchemeType ==
    {"TOP_SET_BACKOFF_TRIPLE", "DOUBLE_PROGRESSION", "DYNAMIC_DOUBLE_PROGRESSION",
     "DROP_SETS", "CLUSTER_SET", "AMRAP", "PYRAMID_UP", "REST_PAUSE"}

SetType == {"warmup", "top", "backoff", "drop", "working", "rest_pause"}

RepQuality == {"clean", "ok", "sloppy"}

(***************************************************************************)
(* progression.ts: constants                                               *)
(***************************************************************************)
WEIGHT_INCREMENT_KG == 250
WEIGHT_INCREMENT_KG_SMALL == 125
REPS_OVER_BASELINE_FOR_WEIGHT_INCREASE == 3

(***************************************************************************)
(* JavaScript built-ins used by the engine.                                *)
(***************************************************************************)
\* Math.min(a, b)
MathMin(a, b) == IF a <= b THEN a ELSE b

\* Math.ceil(total / count) for integers total and count > 0
MathCeilDiv(total, count) == -((-total) \div count)

\* Array.prototype.includes
Includes(arr, x) == \E i \in 1..Len(arr) : arr[i] = x

\* the first position of arr among hits; Array.prototype.find returns
\* undefined (<<>>) or the element there (<<element>>)
FirstMatch(arr, hits) ==
    IF hits = {} THEN <<>>
    ELSE <<arr[CHOOSE i \in hits : \A j \in hits : i <= j]>>

\* lastPerformance.find(s => s.setType === setType)
FindSetType(arr, setType) ==
    FirstMatch(arr, {i \in 1..Len(arr) : arr[i].setType = setType})

\* baseline.find(b => b.setNumber === setNum)
FindSetNumber(arr, setNum) ==
    FirstMatch(arr, {i \in 1..Len(arr) : arr[i].setNumber = setNum})

\* lastPerformance.filter(s => s.setType === t1 || s.setType === t2 ...)
FilterSetTypes(arr, setTypes) ==
    SelectSeq(arr, LAMBDA s : s.setType \in setTypes)

\* arr.reduce((sum, s) => sum + s.reps, 0)
RECURSIVE SumReps(_)
SumReps(arr) ==
    IF arr = <<>> THEN 0 ELSE arr[1].reps + SumReps(Tail(arr))

\* Array.prototype.sort((a, b) => a.setNumber - b.setNumber): a stable sort,
\* computed by insertion of each element after the elements not greater
RECURSIVE InsertBySetNumber(_, _)
InsertBySetNumber(sorted, s) ==
    IF sorted = <<>> THEN <<s>>
    ELSE IF sorted[1].setNumber <= s.setNumber
         THEN <<sorted[1]>> \o InsertBySetNumber(Tail(sorted), s)
         ELSE <<s>> \o sorted

RECURSIVE SortBySetNumber(_)
SortBySetNumber(arr) ==
    IF arr = <<>> THEN <<>>
    ELSE InsertBySetNumber(SortBySetNumber(SubSeq(arr, 1, Len(arr) - 1)), arr[Len(arr)])

(***************************************************************************)
(* progression.ts: the engine                                              *)
(***************************************************************************)
\* the suggestion returned whenever there is no data to progress from
EstablishBaseline == [type |-> "establish_baseline", confidence |-> "high"]

\* BaselineReps that never looks at the supplied baselines
BaselineRepsPhaseOnly(baseline, setNum, dayExercise) ==
    dayExercise.currentPhaseReps

\* baseline?.find(b => b.setNumber === setNum)?.reps ?? dayExercise.currentPhaseReps
BaselineReps(baseline, setNum, dayExercise) ==
    LET found == IF baseline = <<>> THEN <<>>
                 ELSE FindSetNumber(baseline[1], setNum)
    IN  IF found = <<>> THEN dayExercise.currentPhaseReps ELSE found[1].reps

\* TopSetSuggestion that tests the reps over baseline before the quality
TopSetSuggestionRepsFirst(topSet, baselineReps) ==
    LET repsOverBaseline == topSet.reps - baselineReps
    IN  IF repsOverBaseline >= REPS_OVER_BASELINE_FOR_WEIGHT_INCREASE
           /\ topSet.repQuality # "ok"
        THEN [type |-> "add_weight",
              targetWeight |-> topSet.weightKg + WEIGHT_INCREMENT_KG,
              targetReps |-> baselineReps,
              confidence |-> "high", setNumber |-> 1]
        ELSE IF topSet.repQuality = "sloppy"
        THEN [type |-> "improve_quality", confidence |-> "high", setNumber |-> 1]
        ELSE IF topSet.repQuality = "ok" /\ repsOverBaseline >= 1
        THEN [type |-> "improve_quality", confidence |-> "medium", setNumber |-> 1]
        ELSE [type |-> "add_reps", targetReps |-> topSet.reps + 1,
              confidence |-> "high", setNumber |-> 1]

\* TopSetSuggestion that asks an ok top set to improve quality already at
\* its baseline
TopSetSuggestionOkAtBaseline(topSet, baselineReps) ==
    LET repsOverBaseline == topSet.reps - baselineReps
    IN  IF topSet.repQuality = "sloppy"
        THEN [type |-> "improve_quality", confidence |-> "high", setNumber |-> 1]
        ELSE IF repsOverBaseline >= REPS_OVER_BASELINE_FOR_WEIGHT_INCREASE
                /\ topSet.repQuality = "clean"
        THEN [type |-> "add_weight",
              targetWeight |-> topSet.weightKg + WEIGHT_INCREMENT_KG,
              targetReps |-> baselineReps,
              confidence |-> "high", setNumber |-> 1]
        ELSE IF topSet.repQuality = "ok" /\ repsOverBaseline >= 0
        THEN [type |-> "improve_quality", confidence |-> "medium", setNumber |-> 1]
        ELSE [type |-> "add_reps", targetReps |-> topSet.reps + 1,
              confidence |-> "high", setNumber |-> 1]

\* the if-chain on the top set of suggestTripleProgression
TopSetSuggestion(topSet, baselineReps) ==
    LET repsOverBaseline == topSet.reps - baselineReps
    IN  IF topSet.repQuality = "sloppy"
        THEN [type |-> "improve_quality", confidence |-> "high", setNumber |-> 1]
        ELSE IF repsOverBaseline >= REPS_OVER_BASELINE_FOR_WEIGHT_INCREASE
                /\ topSet.repQuality = "clean"
        THEN [type |-> "add_weight",
              targetWeight |-> topSet.weightKg + WEIGHT_INCREMENT_KG,
              targetReps |-> baselineReps,
              confidence |-> "high", setNumber |-> 1]
        ELSE IF topSet.repQuality = "ok" /\ repsOverBaseline >= 1
        THEN [type |-> "improve_quality", confidence |-> "medium", setNumber |-> 1]
        ELSE [type |-> "add_reps", targetReps |-> topSet.reps + 1,
              confidence |-> "high", setNumber |-> 1]

\* BackoffSuggestion that numbers the backoff sets from 1
BackoffSuggestionFromOne(set, index, dayExercise, baseline) ==
    LET setNum == index + 1
        baselineReps == BaselineReps(baseline, setNum, dayExercise)
        repsOverBaseline == set.reps - baselineReps
    IN  IF repsOverBaseline >= REPS_OVER_BASELINE_FOR_WEIGHT_INCREASE
           /\ set.repQuality # "sloppy"
        THEN <<[type |-> "add_weight",
                targetWeight |-> set.weightKg + WEIGHT_INCREMENT_KG,
                confidence |-> "medium", setNumber |-> setNum]>>
        ELSE IF set.repQuality # "sloppy"
        THEN <<[type |-> "add_reps", targetReps |-> set.reps + 1,
                confidence |-> "medium", setNumber |-> setNum]>>
        ELSE <<>>

\* the body of backoffSets.forEach((set, index) => ...): what it pushes
BackoffSuggestion(set, index, dayExercise, baseline) ==
    LET setNum == index + 2
        baselineReps == BaselineReps(baseline, setNum, dayExercise)
        repsOverBaseline == set.reps - baselineReps
    IN  IF repsOverBaseline >= REPS_OVER_BASELINE_FOR_WEIGHT_INCREASE
           /\ set.repQuality # "sloppy"
        THEN <<[type |-> "add_weight",
                targetWeight |-> set.weightKg + WEIGHT_INCREMENT_KG,
                confidence |-> "medium", setNumber |-> setNum]>>
        ELSE IF set.repQuality # "sloppy"
        THEN <<[type |-> "add_reps", targetReps |-> set.reps + 1,
                confidence |-> "medium", setNumber |-> setNum]>>
        ELSE <<>>

\* backoffSets.forEach over the first n backoff sets
RECURSIVE BackoffSuggestions(_, _, _, _)
BackoffSuggestions(backoffSets, n, dayExercise, baseline) ==
    IF n = 0 THEN <<>>
    ELSE BackoffSuggestions(backoffSets, n - 1, dayExercise, baseline)
         \o BackoffSuggestion(backoffSets[n], n - 1, dayExercise, baseline)

\* suggestTripleProgression that pushes the top-set suggestion after the
\* backoff suggestions
suggestTripleProgressionTopLast(lastPerformance, dayExercise, baseline) ==
    LET topSet == FindSetType(lastPerformance, "top")
        backoffSets == FilterSetTypes(lastPerformance, {"backoff"})
        top == IF topSet # <<>>
               THEN <<TopSetSuggestion(topSet[1], BaselineReps(baseline, 1, dayExercise))>>
               ELSE <<>>
    IN  BackoffSuggestions(backoffSets, Len(backoffSets), dayExercise, baseline) \o top

suggestTripleProgression(lastPerformance, dayExercise, baseline) ==
    LET topSet == FindSetType(lastPerformance, "top")
        backoffSets == FilterSetTypes(lastPerformance, {"backoff"})
        top == IF topSet # <<>>
               THEN <<TopSetSuggestion(topSet[1], BaselineReps(baseline, 1, dayExercise))>>
               ELSE <<>>
    IN  top \o BackoffSuggestions(backoffSets, Len(backoffSets), dayExercise, baseline)

\* DoubleTargetReps that rounds the mean down
DoubleTargetRepsFloor(workingSets, dayExercise) ==
    MathMin((SumReps(workingSets) \div Len(workingSets)) + 1, dayExercise.repsMax)

\* the value of targetReps in the add_reps branch of suggestDoubleProgression
DoubleTargetReps(workingSets, dayExercise) ==
    MathMin(MathCeilDiv(SumReps(workingSets), Len(workingSets)) + 1, dayExercise.repsMax)

\* suggestDoubleProgression that does not look at the rep quality
suggestDoubleProgressionAnyQuality(lastPerformance, dayExercise) ==
    LET workingSets == FilterSetTypes(lastPerformance, {"working", "top"})
        allAtMaxReps == \A i \in 1..Len(workingSets) : workingSets[i].reps >= dayExercise.repsMax
    IN  IF Len(workingSets) = 0 THEN <<EstablishBaseline>>
        ELSE IF allAtMaxReps
        THEN <<[type |-> "add_weight",
                targetWeight |-> workingSets[1].weightKg + WEIGHT_INCREMENT_KG,
                targetReps |-> dayExercise.repsMin,
                confidence |-> "high"]>>
        ELSE <<[type |-> "add_reps",
                targetReps |-> DoubleTargetReps(workingSets, dayExercise),
                confidence |-> "high"]>>

suggestDoubleProgression(lastPerformance, dayExercise) ==
    LET workingSets == FilterSetTypes(lastPerformance, {"working", "top"})
        allAtMaxReps == \A i \in 1..Len(workingSets) : workingSets[i].reps >= dayExercise.repsMax
        allCleanOrOk == \A i \in 1..Len(workingSets) : workingSets[i].repQuality # "sloppy"
    IN  IF Len(workingSets) = 0 THEN <<EstablishBaseline>>
        ELSE IF allAtMaxReps /\ allCleanOrOk
        THEN <<[type |-> "add_weight",
                targetWeight |-> workingSets[1].weightKg + WEIGHT_INCREMENT_KG,
                targetReps |-> dayExercise.repsMin,
                confidence |-> "high"]>>
        ELSE <<[type |-> "add_reps",
                targetReps |-> DoubleTargetReps(workingSets, dayExercise),
                confidence |-> "high"]>>

\* the body of workingSets.forEach((set) => ...) of suggestDynamicDoubleProgression
DynamicSuggestion(set, dayExercise) ==
    IF set.reps >= dayExercise.repsMax /\ set.repQuality # "sloppy"
    THEN [type |-> "add_weight",
          targetWeight |-> set.weightKg + WEIGHT_INCREMENT_KG,
          targetReps |-> dayExercise.repsMin,
          confidence |-> "high", setNumber |-> set.setNumber]
    ELSE [type |-> "add_reps",
          targetReps |-> MathMin(set.reps + 1, dayExercise.repsMax),
          confidence |-> "medium", setNumber |-> set.setNumber]

\* DynamicWorkingSets that keeps the input order
DynamicWorkingSetsUnsorted(lastPerformance) ==
    FilterSetTypes(lastPerformance, {"working", "top", "backoff"})

\* the filtered and sorted list that suggestDynamicDoubleProgression walks
DynamicWorkingSets(lastPerformance) ==
    SortBySetNumber(FilterSetTypes(lastPerformance, {"working", "top", "backoff"}))

suggestDynamicDoubleProgression(lastPerformance, dayExercise) ==
    LET workingSets == DynamicWorkingSets(lastPerformance)
    IN  [i \in 1..Len(workingSets) |-> DynamicSuggestion(workingSets[i], dayExercise)]

\* suggestDropSetProgression that adds weight whatever the quality of the
\* top set
suggestDropSetProgressionAnyQuality(lastPerformance, dayExercise) ==
    LET topSet == FindSetType(lastPerformance, "top")
    IN  IF topSet = <<>> THEN <<EstablishBaseline>>
        ELSE IF topSet[1].reps >= dayExercise.repsMax
        THEN <<[type |-> "add_weight",
                targetWeight |-> topSet[1].weightKg + WEIGHT_INCREMENT_KG_SMALL,
                confidence |-> "medium"]>>
        ELSE <<[type |-> "maintain", confidence |-> "high"]>>

suggestDropSetProgression(lastPerformance, dayExercise) ==
    LET topSet == FindSetType(lastPerformance, "top")
    IN  IF topSet = <<>> THEN <<EstablishBaseline>>
        ELSE IF topSet[1].reps >= dayExercise.repsMax /\ topSet[1].repQuality # "sloppy"
        THEN <<[type |-> "add_weight",
                targetWeight |-> topSet[1].weightKg + WEIGHT_INCREMENT_KG_SMALL,
                confidence |-> "medium"]>>
        ELSE <<[type |-> "maintain", confidence |-> "high"]>>

\* MaxRepsOf that reads the reps of the last record only
MaxRepsOfLast(lastPerformance) ==
    lastPerformance[Len(lastPerformance)].reps

\* Math.max(...lastPerformance.map(s => s.reps)) of a non-empty list
MaxRepsOf(lastPerformance) ==
    CHOOSE m \in {lastPerformance[i].reps : i \in 1..Len(lastPerformance)} :
        \A i \in 1..Len(lastPerformance) : lastPerformance[i].reps <= m

AmrapThreshold == 20

suggestAmrapProgression(lastPerformance, dayExercise) ==
    LET maxReps == MaxRepsOf(lastPerformance)
    IN  IF maxReps >= AmrapThreshold
        THEN <<[type |-> "add_weight", confidence |-> "high"]>>
        ELSE <<[type |-> "add_reps", targetReps |-> maxReps + 1, confidence |-> "high"]>>

\* suggestRestPauseProgression that reads the last rest_pause record
suggestRestPauseProgressionLast(lastPerformance, dayExercise) ==
    LET restPauseSets == FilterSetTypes(lastPerformance, {"rest_pause"})
    IN  IF restPauseSets = <<>> THEN <<EstablishBaseline>>
        ELSE <<[type |-> "add_reps",
                targetReps |-> restPauseSets[Len(restPauseSets)].reps + 1,
                confidence |-> "high"]>>

suggestRestPauseProgression(lastPerformance, dayExercise) ==
    LET restPauseSet == FindSetType(lastPerformance, "rest_pause")
    IN  IF restPauseSet = <<>> THEN <<EstablishBaseline>>
        ELSE <<[type |-> "add_reps", targetReps |-> restPauseSet[1].reps + 1,
                confidence |-> "high"]>>

ClusterBonusReps == 5

\* suggestClusterProgression that counts every record as a cluster set
suggestClusterProgressionAnyRecord(lastPerformance, dayExercise) ==
    LET clusterSets == lastPerformance
        totalReps == SumReps(clusterSets)
    IN  IF Len(clusterSets) = 0 THEN <<EstablishBaseline>>
        ELSE <<[type |-> "add_reps", targetReps |-> totalReps + ClusterBonusReps,
                confidence |-> "medium"]>>

\* suggestClusterProgression that counts a record only when cluster is its
\* first modifier
suggestClusterProgressionFirstModifier(lastPerformance, dayExercise) ==
    LET clusterSets == SelectSeq(lastPerformance,
                                 LAMBDA s : s.modifiers # <<>> /\ s.modifiers[1] = "cluster")
        totalReps == SumReps(clusterSets)
    IN  IF Len(clusterSets) = 0 THEN <<EstablishBaseline>>
        ELSE <<[type |-> "add_reps", targetReps |-> totalReps + ClusterBonusReps,
                confidence |-> "medium"]>>

suggestClusterProgression(lastPerformance, dayExercise) ==
    LET clusterSets == SelectSeq(lastPerformance, LAMBDA s : Includes(s.modifiers, "cluster"))
        totalReps == SumReps(clusterSets)
    IN  IF Len(clusterSets) = 0 THEN <<EstablishBaseline>>
        ELSE <<[type |-> "add_reps", targetReps |-> totalReps + ClusterBonusReps,
                confidence |-> "medium"]>>

(***************************************************************************)
(* The arrays of a call.  A JavaScript array is an object on the heap: the *)
(* heap is a sequence of arrays and an array reference is an index into    *)
(* it.  filter allocates a new array, sort orders the array it is called   *)
(* on in place; find, every, map, reduce, forEach and includes only read.  *)
(***************************************************************************)
ArrayFilter(heap, ref, setTypes) ==
    Append(heap, FilterSetTypes(heap[ref], setTypes))

ArraySort(heap, ref) ==
    [heap EXCEPT ![ref] = SortBySetNumber(heap[ref])]

\* the heap of suggestDynamicDoubleProgression that sorts the argument and
\* filters afterwards
DynamicHeapSortFirst(lastPerformance) ==
    LET called   == <<lastPerformance>>
        sorted   == ArraySort(called, 1)
    IN  ArrayFilter(sorted, 1, {"working", "top", "backoff"})

\* the heap after lastPerformance.filter(...).sort(...): the argument at
\* reference 1, workingSets at reference 2
DynamicHeap(lastPerformance) ==
    LET called   == <<lastPerformance>>
        filtered == ArrayFilter(called, 1, {"working", "top", "backoff"})
    IN  ArraySort(filtered, Len(filtered))

\* the caller's lastPerformance array once suggestProgression has returned
ArgumentAfterCall(schemeType, lastPerformance) ==
    IF Len(lastPerformance) = 0 THEN lastPerformance
    ELSE IF schemeType = "DYNAMIC_DOUBLE_PROGRESSION"
    THEN DynamicHeap(lastPerformance)[1]
    ELSE lastPerformance

\* the switch of suggestProgression with a default branch that asks for a
\* baseline
DispatchDefaultBaseline(schemeType, lastPerformance, dayExercise, baseline) ==
    CASE schemeType = "TOP_SET_BACKOFF_TRIPLE" ->
            suggestTripleProgression(lastPerformance, dayExercise, baseline)
      [] schemeType = "DOUBLE_PROGRESSION" ->
            suggestDoubleProgression(lastPerformance, dayExercise)
      [] schemeType = "DYNAMIC_DOUBLE_PROGRESSION" ->
            suggestDynamicDoubleProgression(lastPerformance, dayExercise)
      [] schemeType = "DROP_SETS" ->
            suggestDropSetProgression(lastPerformance, dayExercise)
      [] schemeType = "AMRAP" ->
            suggestAmrapProgression(lastPerformance, dayExercise)
      [] schemeType = "REST_PAUSE" ->
            suggestRestPauseProgression(lastPerformance, dayExercise)
      [] schemeType = "CLUSTER_SET" ->
            suggestClusterProgression(lastPerformance, dayExercise)
      [] OTHER ->
            <<EstablishBaseline>>

\* the switch of suggestProgression
Dispatch(schemeType, lastPerformance, dayExercise, baseline) ==
    CASE schemeType = "TOP_SET_BACKOFF_TRIPLE" ->
            suggestTripleProgression(lastPerformance, dayExercise, baseline)
      [] schemeType = "DOUBLE_PROGRESSION" ->
            suggestDoubleProgression(lastPerformance, dayExercise)
      [] schemeType = "DYNAMIC_DOUBLE_PROGRESSION" ->
            suggestDynamicDoubleProgression(lastPerformance, dayExercise)
      [] schemeType = "DROP_SETS" ->
            suggestDropSetProgression(lastPerformance, dayExercise)
      [] schemeType = "AMRAP" ->
            suggestAmrapProgression(lastPerformance, dayExercise)
      [] schemeType = "REST_PAUSE" ->
            suggestRestPauseProgression(lastPerformance, dayExercise)
      [] schemeType = "CLUSTER_SET" ->
            suggestClusterProgression(lastPerformance, dayExercise)
      [] OTHER ->
            suggestDoubleProgression(lastPerformance, dayExercise)

\* suggestProgression that looks for an empty history only after the
\* triple progression has been dispatched
suggestProgressionTripleFirst(schemeType, lastPerformance, dayExercise, baseline) ==
    IF schemeType = "TOP_SET_BACKOFF_TRIPLE"
    THEN suggestTripleProgression(lastPerformance, dayExercise, baseline)
    ELSE IF Len(lastPerformance) = 0 THEN <<EstablishBaseline>>
    ELSE Dispatch(schemeType, lastPerformance, dayExercise, baseline)

suggestProgression(schemeType, lastPerformance, dayExercise, baseline) ==
    IF Len(lastPerformance) = 0 THEN <<EstablishBaseline>>
    ELSE Dispatch(schemeType, lastPerformance, dayExercise, baseline)

(***************************************************************************)
(* Utility functions.  A JavaScript number is modelled by the exact        *)
(* rational it stands for, a pair <<numerator, denominator>> with a        *)
(* positive denominator; weights are integers (hundredths of a kg).        *)
(***************************************************************************)
RatOf(n) == <<n, 1>>

RatDiv(n, d) == <<n, d>>

RatAdd(a, b) == <<a[1] * b[2] + b[1] * a[2], a[2] * b[2]>>

RatMul(a, b) == <<a[1] * b[1], a[2] * b[2]>>

RatEq(a, b) == a[1] * b[2] = b[1] * a[2]

RatGreater(a, b) == a[1] * b[2] > b[1] * a[2]

\* calculateE1RM by the Epley formula for every rep count
calculateE1RMEpleyOnly(weightKg, reps) ==
    RatMul(RatOf(weightKg), RatAdd(RatOf(1), RatDiv(reps, 30)))

calculateE1RM(weightKg, reps) ==
    IF reps = 1 THEN RatOf(weightKg)
    ELSE RatMul(RatOf(weightKg), RatAdd(RatOf(1), RatDiv(reps, 30)))

\* calculateVolume that multiplies the weight by the reps and adds the
\* external load afterwards
RECURSIVE calculateVolumeLoadLast(_)
calculateVolumeLoadLast(sets) ==
    IF sets = <<>> THEN 0
    ELSE calculateVolumeLoadLast(SubSeq(sets, 1, Len(sets) - 1))
         + (sets[Len(sets)].weightKg * sets[Len(sets)].reps
            + sets[Len(sets)].externalLoadKg)

\* sets.reduce((total, set) => total + (weightKg + externalLoadKg) * reps, 0)
RECURSIVE calculateVolume(_)
calculateVolume(sets) ==
    IF sets = <<>> THEN 0
    ELSE LET set == sets[Len(sets)]
             effectiveWeight == set.weightKg + set.externalLoadKg
         IN  calculateVolume(SubSeq(sets, 1, Len(sets) - 1))
             + (effectiveWeight * set.reps)

\* the callback of getBestSet's reduce
BetterSet(best, set) ==
    LET currentE1RM == calculateE1RM(set.weightKg + set.externalLoadKg, set.reps)
        bestE1RM    == calculateE1RM(best.weightKg + best.externalLoadKg, best.reps)
    IN  IF RatGreater(currentE1RM, bestE1RM) THEN set ELSE best

\* sets.reduce(callback) without an initial value: it starts from sets[0]
RECURSIVE ReduceBest(_)
ReduceBest(sets) ==
    IF Len(sets) = 1 THEN sets[1]
    ELSE BetterSet(ReduceBest(SubSeq(sets, 1, Len(sets) - 1)), sets[Len(sets)])

\* getBestSet that keeps the later of two records of equal e1RM
RECURSIVE ReduceBestLast(_)
ReduceBestLast(sets) ==
    IF Len(sets) = 1 THEN sets[1]
    ELSE LET best == ReduceBestLast(SubSeq(sets, 1, Len(sets) - 1))
             set  == sets[Len(sets)]
         IN  IF RatGreater(calculateE1RM(best.weightKg + best.externalLoadKg, best.reps),
                           calculateE1RM(set.weightKg + set.externalLoadKg, set.reps))
             THEN best ELSE set

getBestSetLastOfEqual(sets) ==
    IF Len(sets) = 0 THEN <<>> ELSE <<ReduceBestLast(sets)>>

\* null is <<>>, a record is <<record>>
getBestSet(sets) ==
    IF Len(sets) = 0 THEN <<>> ELSE <<ReduceBest(sets)>>

(***************************************************************************)
(* Seed data: the prescriptions of two training days.  leg-extension is    *)
(* prescribed on both days; squat-platz is a triple progression and        *)
(* lateral-cable a drop-set prescription.                                  *)
(***************************************************************************)
\* id: `de-${dayId}-${order}`
createDayExercise(dayId, exerciseId, order, schemeType, repsMin, repsMax) ==
    [id |-> <<"de", dayId, order>>, dayId |-> dayId, exerciseId |-> exerciseId,
     order |-> order, schemeType |-> schemeType,
     repsMin |-> repsMin, repsMax |-> repsMax, currentPhaseReps |-> 12]

dayExercisesPlanA ==
    << createDayExercise("day-a2", "squat-platz", 1, "TOP_SET_BACKOFF_TRIPLE", 5, 12),
       createDayExercise("day-a2", "leg-extension", 2, "DOUBLE_PROGRESSION", 10, 15),
       createDayExercise("day-a4", "leg-extension", 3, "DOUBLE_PROGRESSION", 10, 15),
       createDayExercise("day-a4", "lateral-cable", 4, "DROP_SETS", 12, 15) >>

WorkoutDays == {dayExercisesPlanA[i].dayId : i \in 1..Len(dayExercisesPlanA)}

\* db.dayExercises.where('dayId').equals(selectedDayId).sortBy('order')
DayExercisesOf(dayId) ==
    SelectSeq(dayExercisesPlanA, LAMBDA de : de.dayId = dayId)

(***************************************************************************)
(* Settings: the program week and the phase that belongs to it.            *)
(***************************************************************************)
\* the settings row of seedDatabase
SeededSettings ==
    [id |-> "default", displayUnits |-> "kg", restTimerSound |-> TRUE,
     defaultRestSeconds |-> 120, currentPlanId |-> "plan-a",
     currentWeek |-> 1, currentPhase |-> 1]

PlanIds == {"plan-a", "plan-b", "plan-c"}

\* the buttons of the week selector
Weeks == 1..12

\* getPhaseFromWeek that counts week 4 to the second phase
getPhaseFromWeekEarly(week) ==
    IF week < 4 THEN 1
    ELSE IF week <= 8 THEN 2
    ELSE 3

getPhaseFromWeek(week) ==
    IF week <= 4 THEN 1
    ELSE IF week <= 8 THEN 2
    ELSE 3

\* the rep target that getPhaseLabel names for a phase
PhaseReps(phase) ==
    CASE phase = 1 -> 12
      [] phase = 2 -> 8
      [] phase = 3 -> 5

\* db.settings.update('default', updates) on the stored row
updateSettings(row, updates) ==
    IF row = <<>> THEN row
    ELSE <<[f \in DOMAIN row[1] |->
              IF f \in DOMAIN updates THEN updates[f] ELSE row[1][f]]>>

\* the nextWeek of handleAdvanceWeek
NextWeekOf(currentWeek) ==
    IF currentWeek + 1 > 12 THEN 1 ELSE currentWeek + 1

(***************************************************************************)
(* Seeding.  The tables other than dayExercises, settings, sessions and    *)
(* setLogs are kept as the sets of their row ids.                          *)
(***************************************************************************)
MaxInstances == 3

\* the app instances (tabs, or effect runs) that may initialise
Instances == 1..MaxInstances

CatalogTables ==
    {"programs", "plans", "workoutDays", "exercises", "exerciseBlocks",
     "sessionExerciseNotes", "baselines"}

EmptyCatalog == [t \in CatalogTables |-> {}]

\* program, plans, workoutDays, exercises and exerciseBlocks of the seed
SeedCatalog ==
    [t \in CatalogTables |->
        CASE t = "programs" -> {"iron-legacy-v1"}
          [] t = "plans" -> PlanIds
          [] t = "workoutDays" -> {"day-a2", "day-a4"}
          [] t = "exercises" -> {"squat-platz", "leg-extension", "lateral-cable"}
          [] t = "exerciseBlocks" -> {"block-a2-row"}
          [] OTHER -> {}]

\* isDatabaseSeeded: (await db.programs.count()) > 0
isDatabaseSeeded(catalog) == Cardinality(catalog["programs"]) > 0

\* table.add / bulkAdd rejects with ConstraintError when a key exists
SeedKeyExists(catalog, dayExercises, settingsRow) ==
    \/ \E t \in CatalogTables : catalog[t] \cap SeedCatalog[t] # {}
    \/ \E de \in dayExercises : \E i \in 1..Len(dayExercisesPlanA) :
          de.id = dayExercisesPlanA[i].id
    \/ settingsRow # <<>>

(***************************************************************************)
(* Backup files.  A file is what JSON.parse returns for its text: the      *)
(* version, the arrays that are present (a table in "missing" is           *)
(* undefined) and the settings row, or text that is no JSON at all.        *)
(***************************************************************************)
\* the arrays handleImport reads .length of without ?.
RequiredTables ==
    (CatalogTables \ {"sessionExerciseNotes"}) \cup {"dayExercises", "sessions", "setLogs"}

BackupSession ==
    [id |-> 1, planId |-> "plan-a", dayId |-> "day-a2", date |-> 1, startTime |-> 1,
     notes |-> "", endTime |-> 2, completed |-> TRUE]

BackupSet ==
    [id |-> 2, sessionId |-> 1, exerciseId |-> "squat-platz",
     dayExerciseId |-> dayExercisesPlanA[1].id, setNumber |-> 1, setType |-> "top",
     weightKg |-> 10000, externalLoadKg |-> 0, reps |-> 8, repQuality |-> "clean",
     notes |-> "", modifiers |-> <<>>, timestamp |-> 2]

BackupCatalog ==
    [t \in CatalogTables |->
        CASE t = "programs" -> <<"iron-legacy-v1">>
          [] t = "plans" -> <<"plan-a", "plan-b", "plan-c">>
          [] t = "workoutDays" -> <<"day-a2", "day-a4">>
          [] t = "exercises" -> <<"squat-platz", "leg-extension", "lateral-cable">>
          [] t = "exerciseBlocks" -> <<"block-a2-row">>
          [] OTHER -> <<>>]

\* what exportAllData writes for a store with one workout in week 5
ValidBackup ==
    [text |-> "json", version |-> 1, missing |-> {}, catalog |-> BackupCatalog,
     dayExercises |-> dayExercisesPlanA, sessions |-> <<BackupSession>>,
     setLogs |-> <<BackupSet>>,
     settings |-> updateSettings(<<SeededSettings>>, [currentWeek |-> 5, currentPhase |-> 2])]

BackupFiles ==
    {ValidBackup,
     [ValidBackup EXCEPT !.sessions = <<>>, !.setLogs = <<>>,
                         !.settings = <<SeededSettings>>],
     [ValidBackup EXCEPT !.version = 2],
     [ValidBackup EXCEPT !.text = "garbage"],
     [ValidBackup EXCEPT !.missing = {"baselines"}],
     [ValidBackup EXCEPT !.missing = {"sessionExerciseNotes"}],
     [ValidBackup EXCEPT !.setLogs = <<BackupSet, BackupSet>>]}

\* the primary keys of rows
Keys(rows) == [i \in 1..Len(rows) |-> rows[i].id]

SeqRange(seq) == {seq[i] : i \in 1..Len(seq)}

\* table.bulkAdd(rows) rejects with a ConstraintError when a key is already
\* in the table or occurs twice among the rows
bulkAddRejects(tableKeys, keys) ==
    \/ SeqRange(keys) \cap tableKeys # {}
    \/ \E i, j \in 1..Len(keys) : i # j /\ keys[i] = keys[j]

\* JSON.parse throws, or the version is not 1
ParseThrows(file) == file.text # "json" \/ file.version # 1

\* the callback of handleImport's transaction throws: .length of undefined,
\* or a bulkAdd rejects
ImportThrows(file, catalog, dayExercises, sessions, setLogs) ==
    \/ file.missing \cap RequiredTables # {}
    \/ \E t \in CatalogTables \ file.missing :
          bulkAddRejects(catalog[t], file.catalog[t])
    \/ bulkAddRejects({r.id : r \in dayExercises}, Keys(file.dayExercises))
    \/ bulkAddRejects({r.id : r \in sessions}, Keys(file.sessions))
    \/ bulkAddRejects({r.id : r \in setLogs}, Keys(file.setLogs))

(***************************************************************************)
(* The store: a table is the set of its rows, keyed by id.                 *)
(***************************************************************************)
TablePut(table, row) ==
    {r \in table : r.id # row.id} \cup {row}

\* one request: all rows are written or, when it is rejected, none
TableBulkPut(table, rows) ==
    {r \in table : \A i \in 1..Len(rows) : rows[i].id # r.id}
        \cup {rows[i] : i \in 1..Len(rows)}

\* rows ordered by setNumber; rows of equal setNumber stay in primary key
\* order, the order in which the collection delivers them
RECURSIVE SortRowsBySetNumber(_)
SortRowsBySetNumber(rows) ==
    IF rows = {} THEN <<>>
    ELSE LET first == CHOOSE r \in rows :
                         \A q \in rows :
                            \/ r.setNumber < q.setNumber
                            \/ r.setNumber = q.setNumber /\ r.id <= q.id
         IN  <<first>> \o SortRowsBySetNumber(rows \ {first})

\* the last row of the index [exerciseId+timestamp] within one exerciseId
RecentSetOf(rows) ==
    CHOOSE r \in rows :
        \A q \in rows :
            \/ q.timestamp < r.timestamp
            \/ q.timestamp = r.timestamp /\ q.id <= r.id

getLastSetsForExercise(setLogs, exerciseId, dayExerciseId) ==
    LET ofExercise == {r \in setLogs : r.exerciseId = exerciseId}
    IN  IF ofExercise = {} THEN <<>>
        ELSE LET recentSet == RecentSetOf(ofExercise)
             IN  SortRowsBySetNumber(
                     {r \in setLogs : /\ r.sessionId = recentSet.sessionId
                                      /\ r.dayExerciseId = dayExerciseId})

(***************************************************************************)
(* The Workout page: the handlers of the session's set list.               *)
(***************************************************************************)
\* value ?? fallback, for an optional property of setData
OrElse(setData, field, fallback) ==
    IF field \in DOMAIN setData THEN setData[field] ELSE fallback

\* handleQuickAddSet that tags every quick-added set of a triple
\* progression or drop-set prescription as top
handleQuickAddSetAlwaysTop(dayExercise, sets, lastSets) ==
    LET lastSet == IF Len(sets) > 0 THEN <<sets[Len(sets)]>>
                   ELSE IF lastSets # <<>> /\ Len(lastSets[1]) > 0
                        THEN <<lastSets[1][1]>>
                        ELSE <<>>
        setType == IF dayExercise.schemeType \in {"TOP_SET_BACKOFF_TRIPLE", "DROP_SETS"}
                   THEN "top"
                   ELSE IF dayExercise.schemeType = "REST_PAUSE"
                   THEN "rest_pause"
                   ELSE "working"
    IN  [setType |-> setType,
         weightKg |-> IF lastSet = <<>> THEN 0 ELSE lastSet[1].weightKg,
         externalLoadKg |-> IF lastSet = <<>> THEN 0 ELSE lastSet[1].externalLoadKg,
         reps |-> IF lastSet = <<>> THEN dayExercise.repsMin ELSE lastSet[1].reps,
         repQuality |-> "ok"]

\* the setData of ExerciseCard.handleQuickAddSet; sets are this card's sets,
\* lastSets is <<>> while the live query has not delivered, else <<list>>
handleQuickAddSet(dayExercise, sets, lastSets) ==
    LET lastSet == IF Len(sets) > 0 THEN <<sets[Len(sets)]>>
                   ELSE IF lastSets # <<>> /\ Len(lastSets[1]) > 0
                        THEN <<lastSets[1][1]>>
                        ELSE <<>>
        setType == IF Len(sets) = 0 /\ dayExercise.schemeType = "TOP_SET_BACKOFF_TRIPLE"
                   THEN "top"
                   ELSE IF dayExercise.schemeType = "TOP_SET_BACKOFF_TRIPLE" /\ Len(sets) > 0
                   THEN "backoff"
                   ELSE IF dayExercise.schemeType = "DROP_SETS"
                   THEN (IF Len(sets) = 0 THEN "top" ELSE "drop")
                   ELSE IF dayExercise.schemeType = "REST_PAUSE"
                   THEN "rest_pause"
                   ELSE "working"
    IN  [setType |-> setType,
         weightKg |-> IF lastSet = <<>> THEN 0 ELSE lastSet[1].weightKg,
         externalLoadKg |-> IF lastSet = <<>> THEN 0 ELSE lastSet[1].externalLoadKg,
         reps |-> IF lastSet = <<>> THEN dayExercise.repsMin ELSE lastSet[1].reps,
         repQuality |-> "ok"]

\* the newSet of addSet; sessionSets is the list the handler's closure holds
NewSet(activeSession, sessionSets, dayExerciseId, exerciseId, setData, id, now) ==
    LET existingSets == SelectSeq(sessionSets, LAMBDA s : s.dayExerciseId = dayExerciseId)
        newSetNumber == Len(existingSets) + 1
    IN  [id |-> id,
         sessionId |-> activeSession.id,
         exerciseId |-> exerciseId,
         dayExerciseId |-> dayExerciseId,
         setNumber |-> newSetNumber,
         setType |-> OrElse(setData, "setType", "working"),
         weightKg |-> OrElse(setData, "weightKg", 0),
         externalLoadKg |-> OrElse(setData, "externalLoadKg", 0),
         reps |-> OrElse(setData, "reps", 0),
         repQuality |-> OrElse(setData, "repQuality", "ok"),
         notes |-> OrElse(setData, "notes", ""),
         modifiers |-> OrElse(setData, "modifiers", <<>>),
         timestamp |-> now]

\* the updater of addSet: prev => [...prev, newSet]
addSet(prev, newSet) == Append(prev, newSet)

\* { ...set, ...updates }
Spread(set, updates) ==
    [f \in DOMAIN set \cup DOMAIN updates |->
        IF f \in DOMAIN updates THEN updates[f] ELSE set[f]]

\* the updater of updateSet
updateSet(prev, setId, updates) ==
    [i \in 1..Len(prev) |->
        IF prev[i].id = setId THEN Spread(prev[i], updates) ELSE prev[i]]

\* the keys of the Map byDayExercise, in insertion order
RECURSIVE MapKeys(_)
MapKeys(filtered) ==
    IF filtered = <<>> THEN <<>>
    ELSE LET key == filtered[1].dayExerciseId
         IN  <<key>> \o MapKeys(SelectSeq(Tail(filtered),
                                          LAMBDA s : s.dayExerciseId # key))

InsertByTimestamp(sorted, s) ==
    LET before == SelectSeq(sorted, LAMBDA x : x.timestamp <= s.timestamp)
        after  == SelectSeq(sorted, LAMBDA x : x.timestamp > s.timestamp)
    IN  before \o <<s>> \o after

\* sets.sort((a, b) => a.timestamp.getTime() - b.timestamp.getTime()), stable
RECURSIVE SortByTimestamp(_)
SortByTimestamp(sets) ==
    IF sets = <<>> THEN <<>>
    ELSE InsertByTimestamp(SortByTimestamp(SubSeq(sets, 1, Len(sets) - 1)),
                           sets[Len(sets)])

\* sets.forEach((set, idx) => renumbered.push({ ...set, setNumber: idx + 1 }))
Renumber(sets) ==
    [idx \in 1..Len(sets) |-> [sets[idx] EXCEPT !.setNumber = idx]]

RECURSIVE RenumberGroups(_, _)
RenumberGroups(filtered, keys) ==
    IF keys = <<>> THEN <<>>
    ELSE Renumber(SortByTimestamp(
             SelectSeq(filtered, LAMBDA s : s.dayExerciseId = keys[1])))
         \o RenumberGroups(filtered, Tail(keys))

\* the updater of deleteSet without the renumbering
deleteSetFilterOnly(prev, setId) ==
    SelectSeq(prev, LAMBDA set : set.id # setId)

\* the updater of deleteSet
deleteSet(prev, setId) ==
    LET filtered == SelectSeq(prev, LAMBDA set : set.id # setId)
    IN  RenumberGroups(filtered, MapKeys(filtered))

\* the updater of the interval callback of the rest timer effect
TimerTick(prev) ==
    LET newSeconds == prev.seconds + 1
    IN  IF newSeconds >= prev.target
        THEN [prev EXCEPT !.seconds = newSeconds, !.active = FALSE]
        ELSE [prev EXCEPT !.seconds = newSeconds]

\* Math.max(15, prev.target + delta)
adjustTimerTarget(prev, delta) ==
    [prev EXCEPT !.target = IF prev.target + delta > 15 THEN prev.target + delta ELSE 15]

stopRestTimer(prev) == [prev EXCEPT !.active = FALSE]

\* setRestTimer({ active: true, seconds: 0, target: seconds })
startRestTimer(seconds) == [active |-> TRUE, seconds |-> 0, target |-> seconds]

defaultRestSeconds == 120

(***************************************************************************)
(* State: one call of suggestProgression, as ExerciseCard makes it         *)
(* (Home.tsx, "Get progression suggestions").  The arguments are built up  *)
(* first, then the engine is applied to them.                              *)
(***************************************************************************)
VARIABLES
    schemeType,       \* dayExercise.schemeType
    lastPerformance,  \* SetLog[]: the records handed to the engine
    dayExercise,      \* the prescription: repsMin, repsMax, currentPhaseReps
    baseline,         \* the optional ExerciseBaseline[] argument
    suggestions,      \* the ProgressionSuggestion[] returned
    pc                \* "input": arguments being supplied, "done": returned,
                      \* "idle": no call under way

\* the Workout page and the store behind it
VARIABLES
    activeSession,    \* useState<WorkoutSession | null>: <<>> or <<session>>
    sessionSets,      \* useState<SetLog[]>: the current state
    renderedSets,     \* the sessionSets of the last render, which the
                      \* handlers and the set rows on screen hold
    restTimer,        \* useState: active, seconds, target
    clock,            \* new Date(), in ticks
    uuids,            \* the number of uuid() values handed out
    dbSessions,       \* db.sessions
    dbSetLogs,        \* db.setLogs
    savePc            \* the await an async handler is suspended at, or "idle"

engineVars == <<schemeType, lastPerformance, dayExercise, baseline, suggestions, pc>>
workoutVars == <<activeSession, sessionSets, renderedSets, restTimer, clock, uuids,
                 dbSessions, dbSetLogs, savePc>>

\* the statistics helpers and one call of them
VARIABLES
    statSets,         \* SetLog[]: the records handed to the helpers
    statResult        \* <<>> before the call, else <<the values returned>>

\* the Settings page and the rows it works on
VARIABLES
    settings,         \* db.settings: <<>> or <<the 'default' row>>
    dbDayExercises,   \* db.dayExercises: the prescriptions the pages read
    showResetConfirm  \* useState(false) of Settings

\* the remaining tables of the store and the app instances that start up
VARIABLES
    dbCatalog,        \* table name -> the ids of its rows
    initPc            \* App.initialize of every app instance: where it is

\* Settings.handleImport
VARIABLES
    importPc,         \* the await handleImport is suspended at, or "idle"
    importFile,       \* <<>> or <<the parsed backup file>>
    importStatus,     \* useState<string | null>: "none" for null
    importBefore      \* history: the store when the running import began

statsVars == <<statSets, statResult>>
settingsVars == <<settings, dbDayExercises, showResetConfirm>>
bootVars == <<dbCatalog, initPc>>
importVars == <<importPc, importFile, importStatus, importBefore>>
appVars == <<statsVars, settingsVars, bootVars, importVars>>
vars == <<engineVars, workoutVars, appVars>>

\* no statistics call under way
InitStats ==
    /\ statSets = <<>>
    /\ statResult = <<>>

\* the settings row and the prescriptions that seedDatabase adds; the
\* Settings page not yet touched
InitSettings ==
    /\ settings = <<SeededSettings>>
    /\ dbDayExercises = {dayExercisesPlanA[i] : i \in 1..Len(dayExercisesPlanA)}
    /\ showResetConfirm = FALSE

\* the tables that seedDatabase fills, and every app instance started up
InitBoot ==
    /\ dbCatalog = SeedCatalog
    /\ initPc = [p \in Instances |-> "ready"]

\* no import under way
InitImport ==
    /\ importPc = "idle"
    /\ importFile = <<>>
    /\ importStatus = "none"
    /\ importBefore = <<>>

InitApp == InitStats /\ InitSettings /\ InitBoot /\ InitImport

\* the useState initial values of Workout
PageClosed ==
    /\ activeSession = <<>>
    /\ sessionSets = <<>>
    /\ renderedSets = <<>>
    /\ restTimer = [active |-> FALSE, seconds |-> 0, target |-> defaultRestSeconds]

\* no workout page open, an empty history
InitWorkout ==
    /\ PageClosed
    /\ clock = 0
    /\ uuids = 0
    /\ dbSessions = {}
    /\ dbSetLogs = {}
    /\ savePc = "idle"

\* a set log as the engine reads it; the weight falls by 5 kg from each
\* record to the next, so that no two records of a list weigh the same
SetLog(position, setNumber, setType, reps, repQuality, modifiers) ==
    [setNumber |-> setNumber, setType |-> setType,
     weightKg |-> 6000 - 500 * (position - 1),
     reps |-> reps, repQuality |-> repQuality, modifiers |-> modifiers]

ExerciseBaseline(setNumber, reps) == [setNumber |-> setNumber, reps |-> reps]

DayExercise(repsMin, repsMax, currentPhaseReps) ==
    [repsMin |-> repsMin, repsMax |-> repsMax, currentPhaseReps |-> currentPhaseReps]

\* the arguments of a call before any record is supplied
InitCall(schemes, prescriptions, baselines) ==
    /\ schemeType \in schemes
    /\ lastPerformance = <<>>
    /\ dayExercise \in prescriptions
    /\ baseline \in baselines
    /\ suggestions = <<>>
    /\ pc = "input"
    /\ InitWorkout
    /\ InitApp

\* one more record in lastPerformance
LogSet(setNumbers, setTypes, repsValues, qualities, modifierLists) ==
    /\ pc = "input"
    /\ Len(lastPerformance) < MaxSets
    /\ \E n \in setNumbers, t \in setTypes, r \in repsValues,
          q \in qualities, m \in modifierLists :
          lastPerformance' = Append(lastPerformance,
              SetLog(Len(lastPerformance) + 1, n, t, r, q, m))
    /\ UNCHANGED <<schemeType, dayExercise, baseline, suggestions, pc>>
    /\ UNCHANGED workoutVars
    /\ UNCHANGED appVars

\* const suggestions = suggestProgression(schemeType, lastSets, dayExercise, baseline)
Suggest ==
    /\ pc = "input"
    /\ suggestions' = suggestProgression(schemeType, lastPerformance, dayExercise, baseline)
    /\ lastPerformance' = ArgumentAfterCall(schemeType, lastPerformance)
    /\ pc' = "done"
    /\ UNCHANGED <<schemeType, dayExercise, baseline>>
    /\ UNCHANGED workoutVars
    /\ UNCHANGED appVars

(***************************************************************************)
(* Spec: every scheme, records of every set type, with and without the     *)
(* cluster modifier.                                                       *)
(***************************************************************************)
Init ==
    InitCall(SchemeType,
             {DayExercise(1, 2, 1)},
             {<<>>, << <<ExerciseBaseline(1, 2)>> >>})

LogAnySet ==
    LogSet({Len(lastPerformance) + 1}, SetType, {0, MaxReps},
           {"clean", "sloppy"}, {<<>>, <<"cluster">>})

Next == LogAnySet \/ Suggest

Spec == Init /\ [][Next]_vars

(***************************************************************************)
(* SpecTriple: TOP_SET_BACKOFF_TRIPLE with top, backoff and other records  *)
(* of every quality and rep count, against baselines for sets 1 to 3.      *)
(***************************************************************************)
TripleBaselines ==
    {<<>>, << <<>> >>, << <<ExerciseBaseline(1, 1), ExerciseBaseline(1, 2)>> >>}
    \cup {<< <<ExerciseBaseline(n, r)>> >> : n \in 1..3, r \in 1..2}

InitTriple ==
    InitCall({"TOP_SET_BACKOFF_TRIPLE"},
             {DayExercise(1, 2, c) : c \in 1..2},
             TripleBaselines)

LogTripleSet ==
    LogSet({Len(lastPerformance) + 1}, {"top", "backoff", "warmup"}, 0..MaxReps,
           RepQuality, {<<>>})

NextTriple == LogTripleSet \/ Suggest

SpecTriple == InitTriple /\ [][NextTriple]_vars

(***************************************************************************)
(* SpecDouble: DOUBLE_PROGRESSION with records of every set type, quality  *)
(* and rep count.                                                          *)
(***************************************************************************)
InitDouble ==
    InitCall({"DOUBLE_PROGRESSION"},
             {DayExercise(1, x, 1) : x \in 2..3},
             {<<>>})

LogDoubleSet ==
    LogSet({Len(lastPerformance) + 1}, SetType, 0..MaxReps, RepQuality, {<<>>})

NextDouble == LogDoubleSet \/ Suggest

SpecDouble == InitDouble /\ [][NextDouble]_vars

(***************************************************************************)
(* SpecDynamic: DYNAMIC_DOUBLE_PROGRESSION with records whose set numbers  *)
(* come in any order, repeated ones included.                              *)
(***************************************************************************)
InitDynamic ==
    InitCall({"DYNAMIC_DOUBLE_PROGRESSION"},
             {DayExercise(1, 2, 1)},
             {<<>>})

LogDynamicSet ==
    LogSet(1..MaxSets, {"working", "top", "backoff", "warmup"}, 0..MaxReps,
           {"ok", "sloppy"}, {<<>>})

NextDynamic == LogDynamicSet \/ Suggest

SpecDynamic == InitDynamic /\ [][NextDynamic]_vars

(***************************************************************************)
(* SpecDrop: DROP_SETS with top, drop and working records of every         *)
(* quality and rep count.                                                  *)
(***************************************************************************)
InitDrop ==
    InitCall({"DROP_SETS"},
             {DayExercise(1, x, 1) : x \in 2..3},
             {<<>>})

LogDropSet ==
    LogSet({Len(lastPerformance) + 1}, {"top", "drop", "working"}, 0..MaxReps,
           RepQuality, {<<>>})

NextDrop == LogDropSet \/ Suggest

SpecDrop == InitDrop /\ [][NextDrop]_vars

(***************************************************************************)
(* SpecAmrap: AMRAP with records of every set type whose reps lie around   *)
(* the threshold of 20, under prescriptions whose repsMax lies below and   *)
(* above the reps logged.                                                  *)
(***************************************************************************)
InitAmrap ==
    InitCall({"AMRAP"},
             {DayExercise(1, 2, 1), DayExercise(10, AmrapThreshold + MaxReps, 1)},
             {<<>>})

LogAmrapSet ==
    LogSet({Len(lastPerformance) + 1}, SetType,
           (AmrapThreshold - 2)..(AmrapThreshold + 1) \cup {MaxReps},
           {"clean", "sloppy"}, {<<>>})

NextAmrap == LogAmrapSet \/ Suggest

SpecAmrap == InitAmrap /\ [][NextAmrap]_vars

(***************************************************************************)
(* SpecRestPause: REST_PAUSE with rest_pause, working and warmup records.  *)
(***************************************************************************)
InitRestPause ==
    InitCall({"REST_PAUSE"},
             {DayExercise(1, x, 1) : x \in 2..3},
             {<<>>})

LogRestPauseSet ==
    LogSet({Len(lastPerformance) + 1}, {"rest_pause", "working", "warmup"},
           0..MaxReps, RepQuality, {<<>>})

NextRestPause == LogRestPauseSet \/ Suggest

SpecRestPause == InitRestPause /\ [][NextRestPause]_vars

(***************************************************************************)
(* SpecCluster: CLUSTER_SET with records that carry the cluster modifier   *)
(* alone, next to another modifier, or not at all.                         *)
(***************************************************************************)
InitCluster ==
    InitCall({"CLUSTER_SET"},
             {DayExercise(1, x, 1) : x \in 2..3},
             {<<>>})

LogClusterSet ==
    LogSet({Len(lastPerformance) + 1}, {"working", "warmup"}, 0..MaxReps,
           {"clean", "sloppy"}, {<<>>, <<"cluster">>, <<"paused">>, <<"paused", "cluster">>})

NextCluster == LogClusterSet \/ Suggest

SpecCluster == InitCluster /\ [][NextCluster]_vars

(***************************************************************************)
(* SpecPyramid: PYRAMID_UP, the scheme without a branch of its own, on the *)
(* inputs of SpecDouble.                                                   *)
(***************************************************************************)
InitPyramid ==
    InitCall({"PYRAMID_UP"},
             {DayExercise(1, x, 1) : x \in 2..3},
             {<<>>})

SpecPyramid == InitPyramid /\ [][NextDouble]_vars

(***************************************************************************)
(* SpecFrame: every scheme on records whose set numbers come in any order, *)
(* with and without a baseline list.                                       *)
(***************************************************************************)
InitFrame ==
    InitCall(SchemeType,
             {DayExercise(1, 2, 1)},
             {<<>>, << <<ExerciseBaseline(1, 2)>> >>})

LogFrameSet ==
    LogSet(1..MaxSets, {"working", "top", "warmup"}, {MaxReps}, {"ok"}, {<<>>})

NextFrame == LogFrameSet \/ Suggest

SpecFrame == InitFrame /\ [][NextFrame]_vars

(***************************************************************************)
(* The Workout page as a state machine.  A handler runs against the        *)
(* closure of the last render: it reads renderedSets and hands an updater  *)
(* to setSessionSets, which React applies to the current state.  With      *)
(* flush, React renders again before the next handler runs, as it does     *)
(* after every click; without it the next render is a step of its own.     *)
(***************************************************************************)
MaxUuids == 4

\* what the user may key into a set row before saving it
SetEntries == {[weightKg |-> 6250, reps |-> MaxReps, repQuality |-> "clean"]}

NoCall ==
    /\ schemeType = "DOUBLE_PROGRESSION"
    /\ lastPerformance = <<>>
    /\ dayExercise = DayExercise(1, 2, 1)
    /\ baseline = <<>>
    /\ suggestions = <<>>
    /\ pc = "idle"

InitPage == NoCall /\ InitWorkout /\ InitApp

Rendered(flush) ==
    renderedSets' = IF flush THEN sessionSets' ELSE renderedSets

\* the page is opened for a training day; the effect creates the session
StartWorkout ==
    /\ activeSession = <<>>
    /\ savePc = "idle"
    /\ uuids < MaxUuids
    /\ \E dayId \in WorkoutDays :
          activeSession' = <<[id |-> uuids + 1, planId |-> "plan-a", dayId |-> dayId,
                              date |-> clock + 1, startTime |-> clock + 1,
                              notes |-> "", completed |-> FALSE]>>
    /\ uuids' = uuids + 1
    /\ clock' = clock + 1
    /\ UNCHANGED <<sessionSets, renderedSets, restTimer, dbSessions, dbSetLogs, savePc>>
    /\ UNCHANGED engineVars
    /\ UNCHANGED appVars

\* ExerciseCard.handleQuickAddSet, then addSet
QuickAddSet(flush) ==
    /\ activeSession # <<>>
    /\ savePc = "idle"
    /\ uuids < MaxUuids
    /\ \E i \in 1..Len(DayExercisesOf(activeSession[1].dayId)),
          loaded \in BOOLEAN, elapsed \in 0..1 :
          LET de       == DayExercisesOf(activeSession[1].dayId)[i]
              sets     == SelectSeq(renderedSets, LAMBDA s : s.dayExerciseId = de.id)
              lastSets == IF loaded
                          THEN <<getLastSetsForExercise(dbSetLogs, de.exerciseId, de.id)>>
                          ELSE <<>>
              setData  == handleQuickAddSet(de, sets, lastSets)
              newSet   == NewSet(activeSession[1], renderedSets, de.id, de.exerciseId,
                                 setData, uuids + 1, clock + elapsed)
          IN  /\ sessionSets' = addSet(sessionSets, newSet)
              /\ clock' = clock + elapsed
    /\ uuids' = uuids + 1
    /\ Rendered(flush)
    /\ UNCHANGED <<activeSession, restTimer, dbSessions, dbSetLogs, savePc>>
    /\ UNCHANGED engineVars
    /\ UNCHANGED appVars

\* SetRow.handleSave: onUpdate({ weightKg, reps, repQuality }, true)
SaveSet(flush) ==
    /\ activeSession # <<>>
    /\ savePc = "idle"
    /\ \E k \in 1..Len(renderedSets) :
          \E updates \in SetEntries \cup {[weightKg |-> renderedSets[k].weightKg,
                                           reps |-> renderedSets[k].reps,
                                           repQuality |-> renderedSets[k].repQuality]} :
             sessionSets' = updateSet(sessionSets, renderedSets[k].id, updates)
    /\ restTimer' = startRestTimer(defaultRestSeconds)
    /\ Rendered(flush)
    /\ UNCHANGED <<activeSession, clock, uuids, dbSessions, dbSetLogs, savePc>>
    /\ UNCHANGED engineVars
    /\ UNCHANGED appVars

\* SetRow.handleDelete, confirmed: onDelete()
DeleteSet(flush) ==
    /\ activeSession # <<>>
    /\ savePc = "idle"
    /\ \E k \in 1..Len(renderedSets) :
          sessionSets' = deleteSet(sessionSets, renderedSets[k].id)
    /\ Rendered(flush)
    /\ UNCHANGED <<activeSession, restTimer, clock, uuids, dbSessions, dbSetLogs, savePc>>
    /\ UNCHANGED engineVars
    /\ UNCHANGED appVars

\* React renders the page with the current state
Render ==
    /\ activeSession # <<>>
    /\ renderedSets # sessionSets
    /\ renderedSets' = sessionSets
    /\ UNCHANGED <<activeSession, sessionSets, restTimer, clock, uuids,
                   dbSessions, dbSetLogs, savePc>>
    /\ UNCHANGED engineVars
    /\ UNCHANGED appVars

\* navigate('/'): the Workout page is unmounted and its state is gone
Unmounted ==
    /\ activeSession' = <<>>
    /\ sessionSets' = <<>>
    /\ renderedSets' = <<>>
    /\ restTimer' = [active |-> FALSE, seconds |-> 0, target |-> defaultRestSeconds]

\* handleFinishWorkout up to the first await of saveSession
FinishPutSession ==
    /\ activeSession # <<>>
    /\ savePc = "idle"
    /\ Len(renderedSets) > 0
    /\ dbSessions' = TablePut(dbSessions,
                              [id |-> activeSession[1].id,
                               planId |-> activeSession[1].planId,
                               dayId |-> activeSession[1].dayId,
                               date |-> activeSession[1].date,
                               startTime |-> activeSession[1].startTime,
                               notes |-> activeSession[1].notes,
                               endTime |-> clock,
                               completed |-> TRUE])
    /\ savePc' = "bulkPut"
    /\ UNCHANGED <<activeSession, sessionSets, renderedSets, restTimer, clock, uuids,
                   dbSetLogs>>
    /\ UNCHANGED engineVars
    /\ UNCHANGED appVars

\* the second await of saveSession, then navigate('/')
FinishBulkPut ==
    /\ savePc = "bulkPut"
    /\ dbSetLogs' = TableBulkPut(dbSetLogs, renderedSets)
    /\ Unmounted
    /\ savePc' = "idle"
    /\ UNCHANGED <<clock, uuids, dbSessions>>
    /\ UNCHANGED engineVars
    /\ UNCHANGED appVars

\* handleFinishWorkout with nothing logged: saveSession writes nothing
FinishEmpty ==
    /\ activeSession # <<>>
    /\ savePc = "idle"
    /\ Len(renderedSets) = 0
    /\ Unmounted
    /\ UNCHANGED <<clock, uuids, dbSessions, dbSetLogs, savePc>>
    /\ UNCHANGED engineVars
    /\ UNCHANGED appVars

\* db.setLogs.bulkPut rejects: saveSession throws and navigate is not reached
BulkPutRejected ==
    /\ savePc = "bulkPut"
    /\ savePc' = "idle"
    /\ UNCHANGED <<activeSession, sessionSets, renderedSets, restTimer, clock, uuids,
                   dbSessions, dbSetLogs>>
    /\ UNCHANGED engineVars
    /\ UNCHANGED appVars

\* the tab is closed or reloaded, at any point of a handler
CloseTab ==
    /\ activeSession # <<>>
    /\ Unmounted
    /\ savePc' = "idle"
    /\ UNCHANGED <<clock, uuids, dbSessions, dbSetLogs>>
    /\ UNCHANGED engineVars
    /\ UNCHANGED appVars

\* Settings.handleClearHistory, confirmed, up to its second await
ClearSessions ==
    /\ activeSession = <<>>
    /\ savePc = "idle"
    /\ dbSessions # {} \/ dbSetLogs # {}
    /\ dbSessions' = {}
    /\ savePc' = "clearSetLogs"
    /\ UNCHANGED <<activeSession, sessionSets, renderedSets, restTimer, clock, uuids,
                   dbSetLogs>>
    /\ UNCHANGED engineVars
    /\ UNCHANGED appVars

\* handleClearHistory from db.setLogs.clear() on
ClearSetLogs ==
    /\ savePc = "clearSetLogs"
    /\ dbSetLogs' = {}
    /\ savePc' = "idle"
    /\ UNCHANGED <<activeSession, sessionSets, renderedSets, restTimer, clock, uuids,
                   dbSessions>>
    /\ UNCHANGED engineVars
    /\ UNCHANGED appVars

\* db.setLogs.clear() rejects, or the tab is closed before it
ClearSetLogsRejected ==
    /\ savePc = "clearSetLogs"
    /\ savePc' = "idle"
    /\ UNCHANGED <<activeSession, sessionSets, renderedSets, restTimer, clock, uuids,
                   dbSessions, dbSetLogs>>
    /\ UNCHANGED engineVars
    /\ UNCHANGED appVars

(***************************************************************************)
(* SpecWorkout: workouts one after the other, every handler followed by a  *)
(* render, no write rejected.                                              *)
(***************************************************************************)
NextWorkout ==
    \/ StartWorkout
    \/ QuickAddSet(TRUE)
    \/ SaveSet(TRUE)
    \/ DeleteSet(TRUE)
    \/ FinishPutSession
    \/ FinishBulkPut
    \/ FinishEmpty

SpecWorkout == InitPage /\ [][NextWorkout]_vars

(***************************************************************************)
(* SpecBatched: handlers that run before React has rendered the state the  *)
(* previous handler set.                                                   *)
(***************************************************************************)
NextBatched ==
    \/ StartWorkout
    \/ QuickAddSet(FALSE)
    \/ DeleteSet(FALSE)
    \/ Render
    \/ FinishEmpty

SpecBatched == InitPage /\ [][NextBatched]_vars

(***************************************************************************)
(* SpecStore: the writes of saveSession and handleClearHistory, each of    *)
(* which may be the last one that reaches the store.                       *)
(***************************************************************************)
NextStore ==
    \/ StartWorkout
    \/ QuickAddSet(TRUE)
    \/ FinishPutSession
    \/ FinishBulkPut
    \/ FinishEmpty
    \/ BulkPutRejected
    \/ CloseTab
    \/ ClearSessions
    \/ ClearSetLogs
    \/ ClearSetLogsRejected

SpecStore == InitPage /\ [][NextStore]_vars

(***************************************************************************)
(* SpecStats: the utility functions on lists of records with and without   *)
(* a negative external load (an assisted set).                             *)
(***************************************************************************)
StatWeights == {0, 5000, 10000}

StatLoads == {0, -500, -6000}

\* one more record in the list
LogStatSet ==
    /\ statResult = <<>>
    /\ Len(statSets) < MaxSets
    /\ \E w \in StatWeights, x \in StatLoads, r \in 0..MaxReps :
          statSets' = Append(statSets, [weightKg |-> w, externalLoadKg |-> x, reps |-> r])
    /\ UNCHANGED statResult
    /\ UNCHANGED <<engineVars, workoutVars, settingsVars, bootVars, importVars>>

\* calculateVolume(sets), getBestSet(sets) and the e1RM of every record
Calculate ==
    /\ statResult = <<>>
    /\ statResult' =
         <<[volume  |-> calculateVolume(statSets),
            bestSet |-> getBestSet(statSets),
            e1RM    |-> [i \in 1..Len(statSets) |->
                            calculateE1RM(statSets[i].weightKg + statSets[i].externalLoadKg,
                                          statSets[i].reps)]]>>
    /\ UNCHANGED statSets
    /\ UNCHANGED <<engineVars, workoutVars, settingsVars, bootVars, importVars>>

NextStats == LogStatSet \/ Calculate

SpecStats == InitPage /\ [][NextStats]_vars

(***************************************************************************)
(* SpecSettings: the handlers of the Settings page on the seeded settings. *)
(* The page renders its buttons once the settings row has been read, and   *)
(* each handler runs on the row as it is stored.                           *)
(***************************************************************************)
SettingsFrame ==
    /\ UNCHANGED dbDayExercises
    /\ UNCHANGED <<engineVars, workoutVars, statsVars, bootVars, importVars>>

handleUnitChange ==
    /\ settings # <<>>
    /\ \E unit \in {"kg", "lb"} :
          settings' = updateSettings(settings, [displayUnits |-> unit])
    /\ UNCHANGED showResetConfirm
    /\ SettingsFrame

handlePlanChange ==
    /\ settings # <<>>
    /\ \E planId \in PlanIds :
          settings' = updateSettings(settings, [currentPlanId |-> planId])
    /\ UNCHANGED showResetConfirm
    /\ SettingsFrame

handleWeekChange ==
    /\ settings # <<>>
    /\ \E week \in Weeks :
          settings' = updateSettings(settings,
                          [currentWeek |-> week, currentPhase |-> getPhaseFromWeek(week)])
    /\ UNCHANGED showResetConfirm
    /\ SettingsFrame

handleAdvanceWeek ==
    /\ settings # <<>>
    /\ LET nextWeek == NextWeekOf(settings[1].currentWeek)
       IN  settings' = updateSettings(settings,
                           [currentWeek |-> nextWeek,
                            currentPhase |-> getPhaseFromWeek(nextWeek)])
    /\ UNCHANGED showResetConfirm
    /\ SettingsFrame

\* the first click asks for confirmation, the second one restarts
handleRestartProgram ==
    /\ settings # <<>>
    /\ IF showResetConfirm
       THEN /\ settings' = updateSettings(settings, [currentWeek |-> 1, currentPhase |-> 1])
            /\ showResetConfirm' = FALSE
       ELSE /\ showResetConfirm' = TRUE
            /\ UNCHANGED settings
    /\ SettingsFrame

\* setTimeout(() => setShowResetConfirm(false), 3000)
ResetConfirmTimeout ==
    /\ showResetConfirm
    /\ showResetConfirm' = FALSE
    /\ UNCHANGED settings
    /\ SettingsFrame

NextSettings ==
    \/ handleUnitChange
    \/ handlePlanChange
    \/ handleWeekChange
    \/ handleAdvanceWeek
    \/ handleRestartProgram
    \/ ResetConfirmTimeout

SpecSettings == InitPage /\ [][NextSettings]_vars

(***************************************************************************)
(* SpecTimer: the rest timer of an open workout page.  The effect sets an  *)
(* interval only while the timer is active with seconds < target; the      *)
(* interval's callback is the tick.                                        *)
(***************************************************************************)
MaxTimerTarget == 150

TimerFrame ==
    /\ UNCHANGED <<activeSession, sessionSets, renderedSets, clock, uuids,
                   dbSessions, dbSetLogs, savePc>>
    /\ UNCHANGED <<engineVars, appVars>>

\* the Start Timer button, shown while no timer is active
StartTimer ==
    /\ activeSession # <<>>
    /\ ~restTimer.active
    /\ restTimer' = startRestTimer(defaultRestSeconds)
    /\ TimerFrame

Tick ==
    /\ activeSession # <<>>
    /\ restTimer.active /\ restTimer.seconds < restTimer.target
    /\ restTimer' = TimerTick(restTimer)
    /\ TimerFrame

\* the -15s and +15s buttons of the floating timer
AdjustTimer ==
    /\ activeSession # <<>>
    /\ restTimer.active
    /\ \E delta \in {-15, 15} :
          /\ restTimer.target + delta <= MaxTimerTarget
          /\ restTimer' = adjustTimerTarget(restTimer, delta)
    /\ restTimer' # restTimer
    /\ TimerFrame

StopTimer ==
    /\ activeSession # <<>>
    /\ restTimer.active
    /\ restTimer' = stopRestTimer(restTimer)
    /\ TimerFrame

NextTimer ==
    \/ StartWorkout
    \/ StartTimer
    \/ Tick
    \/ AdjustTimer
    \/ StopTimer

SpecTimer == InitPage /\ [][NextTimer]_vars

\* the timer left to itself and to the adjust buttons, ticking fairly
NextTimerUnstopped ==
    \/ StartWorkout
    \/ StartTimer
    \/ Tick
    \/ AdjustTimer

SpecTimerFair ==
    InitPage /\ [][NextTimerUnstopped]_vars /\ WF_vars(Tick) /\ WF_vars(StartWorkout)

(***************************************************************************)
(* SpecBoot: app instances that start up on an empty store, each running   *)
(* App.initialize: isDatabaseSeeded, then seedDatabase with its own count  *)
(* and its transaction.  The reads and the transaction of different        *)
(* instances interleave; a transaction is one step.                        *)
(***************************************************************************)
InitEmptyStore ==
    /\ NoCall /\ InitWorkout /\ InitStats /\ InitImport
    /\ settings = <<>>
    /\ dbDayExercises = {}
    /\ showResetConfirm = FALSE
    /\ dbCatalog = EmptyCatalog
    /\ initPc = [p \in Instances |-> "closed"]

BootFrame ==
    UNCHANGED <<engineVars, workoutVars, statsVars, importVars, showResetConfirm>>

\* the app is opened or reloaded: the effect calls initialize()
Launch(p) ==
    /\ initPc[p] \in {"closed", "ready", "error"}
    /\ initPc' = [initPc EXCEPT ![p] = "isDatabaseSeeded"]
    /\ UNCHANGED <<dbCatalog, settings, dbDayExercises>>
    /\ BootFrame

\* const seeded = await isDatabaseSeeded(); if (!seeded) await seedDatabase()
CheckSeeded(p) ==
    /\ initPc[p] = "isDatabaseSeeded"
    /\ initPc' = [initPc EXCEPT ![p] =
                    IF isDatabaseSeeded(dbCatalog) THEN "ready" ELSE "programCount"]
    /\ UNCHANGED <<dbCatalog, settings, dbDayExercises>>
    /\ BootFrame

\* seedDatabase: const programCount = await db.programs.count()
CountPrograms(p) ==
    /\ initPc[p] = "programCount"
    /\ initPc' = [initPc EXCEPT ![p] =
                    IF Cardinality(dbCatalog["programs"]) > 0 THEN "ready"
                    ELSE "transaction"]
    /\ UNCHANGED <<dbCatalog, settings, dbDayExercises>>
    /\ BootFrame

\* seedDatabase: the transaction.  It commits all its adds, or an add is
\* rejected, the transaction aborts and initialize() catches the error
SeedTransaction(p) ==
    /\ initPc[p] = "transaction"
    /\ IF SeedKeyExists(dbCatalog, dbDayExercises, settings)
       THEN /\ initPc' = [initPc EXCEPT ![p] = "error"]
            /\ UNCHANGED <<dbCatalog, settings, dbDayExercises>>
       ELSE /\ dbCatalog' = [t \in CatalogTables |-> dbCatalog[t] \cup SeedCatalog[t]]
            /\ dbDayExercises' = dbDayExercises
                   \cup {dayExercisesPlanA[i] : i \in 1..Len(dayExercisesPlanA)}
            /\ settings' = <<SeededSettings>>
            /\ initPc' = [initPc EXCEPT ![p] = "ready"]
    /\ BootFrame

NextBoot ==
    \E p \in Instances :
       \/ Launch(p)
       \/ CheckSeeded(p)
       \/ CountPrograms(p)
       \/ SeedTransaction(p)

SpecBoot == InitEmptyStore /\ [][NextBoot]_vars

(***************************************************************************)
(* SpecImport: the Settings page of a seeded store; backup files are       *)
(* imported one after the other.  Each await of handleImport is a step,    *)
(* and each transaction commits whole or not at all.                       *)
(***************************************************************************)
\* everything the store holds
Persisted ==
    [catalog |-> dbCatalog, dayExercises |-> dbDayExercises, settings |-> settings,
     sessions |-> dbSessions, setLogs |-> dbSetLogs]

\* a seeded store with no workout, or with one finished workout
InitImportPage ==
    /\ NoCall /\ InitApp /\ PageClosed
    /\ clock = 0
    /\ uuids = 0
    /\ savePc = "idle"
    /\ \E history \in {<<>>, <<BackupSession, BackupSet>>} :
          /\ dbSessions = IF history = <<>> THEN {} ELSE {history[1]}
          /\ dbSetLogs = IF history = <<>> THEN {} ELSE {history[2]}

ImportFrame ==
    UNCHANGED <<engineVars, statsVars, initPc, showResetConfirm, activeSession,
                sessionSets, renderedSets, restTimer, clock, uuids, savePc>>

StoreUnchanged ==
    UNCHANGED <<dbCatalog, dbDayExercises, settings, dbSessions, dbSetLogs>>

\* handleImport up to await file.text()
ChooseFile ==
    /\ importPc = "idle"
    /\ importStatus # "Import complete! Refreshing..."
    /\ \E file \in BackupFiles : importFile' = <<file>>
    /\ importStatus' = "Importing..."
    /\ importBefore' = <<Persisted>>
    /\ importPc' = "parse"
    /\ StoreUnchanged
    /\ ImportFrame

\* JSON.parse(text) and the version check
ParseFile ==
    /\ importPc = "parse"
    /\ IF ParseThrows(importFile[1])
       THEN /\ importStatus' = "Import failed"
            /\ importPc' = "idle"
       ELSE /\ importPc' = "clearAllData"
            /\ UNCHANGED importStatus
    /\ UNCHANGED <<importFile, importBefore>>
    /\ StoreUnchanged
    /\ ImportFrame

\* await clearAllData(): one transaction that clears every table
ClearAllData ==
    /\ importPc = "clearAllData"
    /\ dbCatalog' = EmptyCatalog
    /\ dbDayExercises' = {}
    /\ settings' = <<>>
    /\ dbSessions' = {}
    /\ dbSetLogs' = {}
    /\ importPc' = "transaction"
    /\ UNCHANGED <<importFile, importStatus, importBefore>>
    /\ ImportFrame

\* the store rejects a transaction of handleImport: it aborts, the catch
\* block reports the failure
StorageError ==
    /\ importPc \in {"clearAllData", "transaction"}
    /\ importStatus' = "Import failed"
    /\ importPc' = "idle"
    /\ UNCHANGED <<importFile, importBefore>>
    /\ StoreUnchanged
    /\ ImportFrame

\* the transaction that adds the rows of the file
ImportTransaction ==
    /\ importPc = "transaction"
    /\ LET file == importFile[1]
       IN  IF ImportThrows(file, dbCatalog, dbDayExercises, dbSessions, dbSetLogs)
           THEN /\ importStatus' = "Import failed"
                /\ StoreUnchanged
           ELSE /\ dbCatalog' = [t \in CatalogTables |->
                                    IF t \in file.missing THEN dbCatalog[t]
                                    ELSE dbCatalog[t] \cup SeqRange(file.catalog[t])]
                /\ dbDayExercises' = dbDayExercises \cup SeqRange(file.dayExercises)
                /\ dbSessions' = dbSessions \cup SeqRange(file.sessions)
                /\ dbSetLogs' = dbSetLogs \cup SeqRange(file.setLogs)
                /\ settings' = IF file.settings # <<>> THEN file.settings ELSE settings
                /\ importStatus' = "Import complete! Refreshing..."
    /\ importPc' = "idle"
    /\ UNCHANGED <<importFile, importBefore>>
    /\ ImportFrame

\* setTimeout(() => window.location.reload(), 1500): the page state is
\* rebuilt, and initialize() finds the programs of the backup
ReloadAfterImport ==
    /\ importPc = "idle"
    /\ importStatus = "Import complete! Refreshing..."
    /\ isDatabaseSeeded(dbCatalog)
    /\ importStatus' = "none"
    /\ importFile' = <<>>
    /\ importBefore' = <<>>
    /\ importPc' = "idle"
    /\ StoreUnchanged
    /\ ImportFrame

NextImport ==
    \/ ChooseFile
    \/ ParseFile
    \/ ClearAllData
    \/ StorageError
    \/ ImportTransaction
    \/ ReloadAfterImport

SpecImport == InitImportPage /\ [][NextImport]_vars

(***************************************************************************)
(* Properties.  The helpers below read the arguments of the call in the    *)
(* current state; they are written from the statements, not from the       *)
(* engine's operators.                                                     *)
(***************************************************************************)
Returned == pc = "done"

\* positions of lastPerformance whose set type is one of tags
Tagged(tags) == {p \in 1..Len(lastPerformance) : lastPerformance[p].setType \in tags}

\* the least position of a non-empty set of positions
FirstOf(positions) == CHOOSE p \in positions : \A q \in positions : p <= q

\* suggestion s carries the optional property f
Has(s, f) == f \in DOMAIN s

\* suggestion s has neither target reps nor target weight
NoTargets(s) == ~Has(s, "targetReps") /\ ~Has(s, "targetWeight")

\* the reps to measure set number n against: the first supplied baseline
\* for set n, else the prescription's currentPhaseReps
ExpectedBaselineReps(n) ==
    LET list == IF baseline = <<>> THEN <<>> ELSE baseline[1]
        hits == {i \in 1..Len(list) : list[i].setNumber = n}
    IN  IF hits = {} THEN dayExercise.currentPhaseReps
        ELSE list[FirstOf(hits)].reps

\* the single establish_baseline suggestion with confidence high
IsEstablishBaseline(list) ==
    /\ Len(list) = 1
    /\ list[1].type = "establish_baseline"
    /\ list[1].confidence = "high"

\* C1: with an empty lastPerformance every scheme returns exactly one
\* suggestion, of type establish_baseline and confidence high, whatever the
\* prescription and the baselines.
C1_EmptyHistory ==
    (Returned /\ lastPerformance = <<>>) => IsEstablishBaseline(suggestions)

C1_Witness ==
    /\ Returned /\ lastPerformance = <<>>
    /\ schemeType = "PYRAMID_UP" /\ baseline # <<>>
    /\ IsEstablishBaseline(suggestions)

\* C2: for every scheme and every lastPerformance the returned list of
\* suggestions is non-empty.
C2_NonEmptyResult == Returned => Len(suggestions) >= 1

\* C3: under TOP_SET_BACKOFF_TRIPLE, when the first top record is sloppy the
\* suggestion for set 1 is improve_quality, confidence high, without target
\* reps or weight, and no suggestion for set 1 is add_weight.
C3_SloppyTopSet ==
    (Returned /\ schemeType = "TOP_SET_BACKOFF_TRIPLE" /\ Tagged({"top"}) # {}
       /\ lastPerformance[FirstOf(Tagged({"top"}))].repQuality = "sloppy")
    => /\ Len(suggestions) >= 1
       /\ suggestions[1].type = "improve_quality"
       /\ suggestions[1].confidence = "high"
       /\ suggestions[1].setNumber = 1
       /\ NoTargets(suggestions[1])
       /\ \A i \in 1..Len(suggestions) :
            suggestions[i].setNumber = 1 => suggestions[i].type # "add_weight"

C3_Witness ==
    /\ Returned /\ schemeType = "TOP_SET_BACKOFF_TRIPLE" /\ Tagged({"top"}) # {}
    /\ LET top == lastPerformance[FirstOf(Tagged({"top"}))]
       IN  top.repQuality = "sloppy" /\ top.reps - ExpectedBaselineReps(1) >= 3
    /\ suggestions[1].type = "improve_quality"

\* C4: under TOP_SET_BACKOFF_TRIPLE with a top set, the top-set suggestion
\* is add_weight exactly when the top set is clean and its reps exceed the
\* baseline reps (first baseline for set 1, else currentPhaseReps) by 3 or
\* more; then targetWeight = weight + 2.5 kg, targetReps = baseline reps and
\* confidence is high.
C4_TopSetAddWeight ==
    (Returned /\ schemeType = "TOP_SET_BACKOFF_TRIPLE" /\ Tagged({"top"}) # {})
    => LET top == lastPerformance[FirstOf(Tagged({"top"}))]
           baselineReps == ExpectedBaselineReps(1)
       IN  /\ Len(suggestions) >= 1
           /\ suggestions[1].setNumber = 1
           /\ suggestions[1].type = "add_weight"
                <=> (top.repQuality = "clean" /\ top.reps - baselineReps >= 3)
           /\ suggestions[1].type = "add_weight"
                => /\ suggestions[1].targetWeight = top.weightKg + 250
                   /\ suggestions[1].targetReps = baselineReps
                   /\ suggestions[1].confidence = "high"

\* add_weight against a supplied baseline that differs from currentPhaseReps
C4_Witness ==
    /\ Returned /\ schemeType = "TOP_SET_BACKOFF_TRIPLE" /\ Tagged({"top"}) # {}
    /\ baseline # <<>>
    /\ ExpectedBaselineReps(1) # dayExercise.currentPhaseReps
    /\ suggestions[1].type = "add_weight"
    /\ suggestions[1].targetReps = ExpectedBaselineReps(1)

\* add_weight without any baseline: the reps default to currentPhaseReps
C4_WitnessNoBaseline ==
    /\ Returned /\ schemeType = "TOP_SET_BACKOFF_TRIPLE" /\ Tagged({"top"}) # {}
    /\ baseline = <<>>
    /\ suggestions[1].type = "add_weight"
    /\ suggestions[1].targetReps = dayExercise.currentPhaseReps

\* C5: under TOP_SET_BACKOFF_TRIPLE with a top set that is not sloppy and
\* does not qualify for add_weight: quality ok with reps over baseline >= 1
\* gives improve_quality, confidence medium, no targets; every other case
\* gives add_reps with targetReps = reps + 1 and confidence high.
C5_TopSetOtherwise ==
    (Returned /\ schemeType = "TOP_SET_BACKOFF_TRIPLE" /\ Tagged({"top"}) # {})
    => LET top == lastPerformance[FirstOf(Tagged({"top"}))]
           over == top.reps - ExpectedBaselineReps(1)
       IN  (top.repQuality # "sloppy" /\ ~(top.repQuality = "clean" /\ over >= 3))
           => /\ Len(suggestions) >= 1
              /\ suggestions[1].setNumber = 1
              /\ IF top.repQuality = "ok" /\ over >= 1
                 THEN /\ suggestions[1].type = "improve_quality"
                      /\ suggestions[1].confidence = "medium"
                      /\ NoTargets(suggestions[1])
                 ELSE /\ suggestions[1].type = "add_reps"
                      /\ suggestions[1].targetReps = top.reps + 1
                      /\ suggestions[1].confidence = "high"

\* an ok top set exactly one rep over its baseline
C5_Witness ==
    /\ Returned /\ schemeType = "TOP_SET_BACKOFF_TRIPLE" /\ Tagged({"top"}) # {}
    /\ LET top == lastPerformance[FirstOf(Tagged({"top"}))]
       IN  top.repQuality = "ok" /\ top.reps - ExpectedBaselineReps(1) = 1
    /\ suggestions[1].type = "improve_quality"
    /\ suggestions[1].confidence = "medium"

\* an ok top set at its baseline, and a clean one two reps over it
C5_WitnessAddReps ==
    /\ Returned /\ schemeType = "TOP_SET_BACKOFF_TRIPLE" /\ Tagged({"top"}) # {}
    /\ LET top == lastPerformance[FirstOf(Tagged({"top"}))]
       IN  top.repQuality = "clean" /\ top.reps - ExpectedBaselineReps(1) = 2
    /\ suggestions[1].type = "add_reps"

\* the backoff records of lastPerformance, in input order
BackoffPositions == Tagged({"backoff"})

\* 0-based position of the record at p among the backoff records
BackoffIndex(p) == Cardinality({q \in BackoffPositions : q < p})

\* the suggestions that follow the top-set suggestion
BackoffPart ==
    IF Tagged({"top"}) # {} THEN Tail(suggestions) ELSE suggestions

\* C6: under TOP_SET_BACKOFF_TRIPLE every backoff record is judged on its
\* own against the baseline of set number (0-based backoff position + 2),
\* defaulting to currentPhaseReps: sloppy gives nothing; otherwise reps over
\* baseline >= 3 gives add_weight with targetWeight = weight + 2.5 kg,
\* confidence medium, and anything else gives add_reps with targetReps =
\* reps + 1, confidence medium.  There are as many backoff suggestions as
\* non-sloppy backoff records.
C6_BackoffSets ==
    (Returned /\ schemeType = "TOP_SET_BACKOFF_TRIPLE" /\ lastPerformance # <<>>)
    => /\ Len(BackoffPart) =
            Cardinality({p \in BackoffPositions : lastPerformance[p].repQuality # "sloppy"})
       /\ \A p \in BackoffPositions :
            LET set == lastPerformance[p]
                setNum == BackoffIndex(p) + 2
                over == set.reps - ExpectedBaselineReps(setNum)
                mine == {i \in 1..Len(BackoffPart) : BackoffPart[i].setNumber = setNum}
            IN  IF set.repQuality = "sloppy" THEN mine = {}
                ELSE /\ Cardinality(mine) = 1
                     /\ \A i \in mine :
                          /\ BackoffPart[i].confidence = "medium"
                          /\ IF over >= 3
                             THEN /\ BackoffPart[i].type = "add_weight"
                                  /\ BackoffPart[i].targetWeight = set.weightKg + 250
                             ELSE /\ BackoffPart[i].type = "add_reps"
                                  /\ BackoffPart[i].targetReps = set.reps + 1

\* a sloppy backoff record followed by one that earns add_weight against a
\* supplied baseline for set 3
C6_Witness ==
    /\ Returned /\ schemeType = "TOP_SET_BACKOFF_TRIPLE"
    /\ Cardinality(BackoffPositions) = 2
    /\ lastPerformance[FirstOf(BackoffPositions)].repQuality = "sloppy"
    /\ baseline # <<>>
    /\ ExpectedBaselineReps(3) # dayExercise.currentPhaseReps
    /\ Len(suggestions) = 1
    /\ suggestions[1].type = "add_weight"
    /\ suggestions[1].setNumber = 3

\* the working sets of the double progression: records tagged working or top
WorkingPositions == Tagged({"working", "top"})

\* every working set is at repsMax or above and none is sloppy
AllAtMaxAndNotSloppy ==
    \A p \in WorkingPositions :
        /\ lastPerformance[p].reps >= dayExercise.repsMax
        /\ lastPerformance[p].repQuality # "sloppy"

\* C7: under DOUBLE_PROGRESSION with a working or top record, the result is
\* a single add_weight exactly when every such record has reps >= repsMax
\* and none is sloppy; then targetWeight = weight of the first such record
\* + 2.5 kg, targetReps = repsMin and confidence is high.
C7_DoubleAddWeight ==
    (Returned /\ schemeType = "DOUBLE_PROGRESSION" /\ WorkingPositions # {})
    => /\ Len(suggestions) = 1
       /\ suggestions[1].type = "add_weight" <=> AllAtMaxAndNotSloppy
       /\ AllAtMaxAndNotSloppy
            => /\ suggestions[1].targetWeight =
                    lastPerformance[FirstOf(WorkingPositions)].weightKg + 250
               /\ suggestions[1].targetReps = dayExercise.repsMin
               /\ suggestions[1].confidence = "high"

\* two qualifying working sets after a record that is not a working set
C7_Witness ==
    /\ Returned /\ schemeType = "DOUBLE_PROGRESSION"
    /\ Cardinality(WorkingPositions) >= 1
    /\ FirstOf(WorkingPositions) > 1
    /\ AllAtMaxAndNotSloppy
    /\ suggestions[1].type = "add_weight"

\* the sum of the reps of the records at the given positions
RECURSIVE RepsAt(_)
RepsAt(positions) ==
    IF positions = {} THEN 0
    ELSE LET p == FirstOf(positions)
         IN  lastPerformance[p].reps + RepsAt(positions \ {p})

\* the least integer not below total / count
CeilOfMean(total, count) ==
    CHOOSE c \in 0..total : c * count >= total /\ (c - 1) * count < total

\* C8: under DOUBLE_PROGRESSION, when working or top records exist and the
\* add_weight condition fails, the result is a single add_reps, confidence
\* high, with targetReps = min(ceil(mean reps of those records) + 1,
\* repsMax); targetReps never exceeds repsMax.
C8_DoubleAddReps ==
    (Returned /\ schemeType = "DOUBLE_PROGRESSION" /\ WorkingPositions # {}
       /\ ~AllAtMaxAndNotSloppy)
    => LET ceilMean == CeilOfMean(RepsAt(WorkingPositions), Cardinality(WorkingPositions))
       IN  /\ Len(suggestions) = 1
           /\ suggestions[1].type = "add_reps"
           /\ suggestions[1].confidence = "high"
           /\ ~Has(suggestions[1], "targetWeight")
           /\ suggestions[1].targetReps =
                (IF ceilMean + 1 <= dayExercise.repsMax
                 THEN ceilMean + 1 ELSE dayExercise.repsMax)
           /\ suggestions[1].targetReps <= dayExercise.repsMax

\* a mean that is not an integer and a target below repsMax
C8_Witness ==
    /\ Returned /\ schemeType = "DOUBLE_PROGRESSION"
    /\ Cardinality(WorkingPositions) = 2
    /\ RepsAt(WorkingPositions) = 1
    /\ dayExercise.repsMax = 3
    /\ suggestions[1].type = "add_reps"
    /\ suggestions[1].targetReps = 2

\* the mean plus one would pass repsMax: a sloppy set above repsMax
C8_WitnessCapped ==
    /\ Returned /\ schemeType = "DOUBLE_PROGRESSION"
    /\ WorkingPositions # {}
    /\ \A p \in WorkingPositions : lastPerformance[p].reps > dayExercise.repsMax
    /\ suggestions[1].type = "add_reps"
    /\ suggestions[1].targetReps = dayExercise.repsMax

\* lastPerformance holds no record that the scheme looks at
NoQualifyingRecord ==
    \/ schemeType = "DOUBLE_PROGRESSION" /\ Tagged({"working", "top"}) = {}
    \/ schemeType = "DROP_SETS" /\ Tagged({"top"}) = {}
    \/ schemeType = "REST_PAUSE" /\ Tagged({"rest_pause"}) = {}
    \/ schemeType = "CLUSTER_SET"
         /\ \A p \in 1..Len(lastPerformance) :
              \A k \in 1..Len(lastPerformance[p].modifiers) :
                  lastPerformance[p].modifiers[k] # "cluster"

\* C9: with a non-empty lastPerformance that holds no qualifying record
\* (DOUBLE_PROGRESSION: no working or top record; DROP_SETS: no top record;
\* REST_PAUSE: no rest_pause record; CLUSTER_SET: no record with the cluster
\* modifier) the engine returns exactly one establish_baseline suggestion
\* with confidence high.
C9_NoQualifyingRecord ==
    (Returned /\ lastPerformance # <<>> /\ NoQualifyingRecord)
    => IsEstablishBaseline(suggestions)

\* a cluster scheme whose records are all untagged working sets
C9_Witness ==
    /\ Returned /\ Len(lastPerformance) = 2 /\ NoQualifyingRecord
    /\ schemeType = "CLUSTER_SET"
    /\ Tagged({"working"}) = {1, 2}
    /\ IsEstablishBaseline(suggestions)

\* a double progression with cluster-tagged warmup and drop records only
C9_WitnessDouble ==
    /\ Returned /\ Len(lastPerformance) = 2 /\ NoQualifyingRecord
    /\ schemeType = "DOUBLE_PROGRESSION"
    /\ IsEstablishBaseline(suggestions)

\* the records the dynamic double progression looks at
DynamicPositions == Tagged({"working", "top", "backoff"})

\* what the statement expects for the record at position p
ExpectedDynamic(p) ==
    LET set == lastPerformance[p]
    IN  IF set.reps >= dayExercise.repsMax /\ set.repQuality # "sloppy"
        THEN [type |-> "add_weight", targetWeight |-> set.weightKg + 250,
              targetReps |-> dayExercise.repsMin, confidence |-> "high",
              setNumber |-> set.setNumber]
        ELSE [type |-> "add_reps",
              targetReps |-> (IF set.reps + 1 <= dayExercise.repsMax
                              THEN set.reps + 1 ELSE dayExercise.repsMax),
              confidence |-> "medium", setNumber |-> set.setNumber]

\* C10: under DYNAMIC_DOUBLE_PROGRESSION there is exactly one suggestion per
\* record tagged working, top or backoff, in ascending set-number order and
\* with the record's own set number; reps >= repsMax and not sloppy gives
\* add_weight (targetWeight = weight + 2.5 kg, targetReps = repsMin,
\* confidence high), every other record, sloppy ones included, gives
\* add_reps with targetReps = min(reps + 1, repsMax), confidence medium.
C10_DynamicPerSet ==
    (Returned /\ schemeType = "DYNAMIC_DOUBLE_PROGRESSION" /\ lastPerformance # <<>>)
    => /\ Len(suggestions) = Cardinality(DynamicPositions)
       /\ \A i \in 1..Len(suggestions), j \in 1..Len(suggestions) :
            i < j => suggestions[i].setNumber <= suggestions[j].setNumber
       /\ \A p \in DynamicPositions :
            Cardinality({i \in 1..Len(suggestions) : suggestions[i] = ExpectedDynamic(p)})
              = Cardinality({q \in DynamicPositions : ExpectedDynamic(q) = ExpectedDynamic(p)})

\* records given out of set-number order, the later one sloppy at repsMax
C10_Witness ==
    /\ Returned /\ schemeType = "DYNAMIC_DOUBLE_PROGRESSION"
    /\ Len(lastPerformance) = 2 /\ DynamicPositions = {1, 2}
    /\ lastPerformance[1].setNumber > lastPerformance[2].setNumber
    /\ lastPerformance[1].repQuality = "sloppy"
    /\ lastPerformance[1].reps >= dayExercise.repsMax
    /\ suggestions[1].type = "add_weight"
    /\ suggestions[2].type = "add_reps"
    /\ suggestions[2].targetReps = dayExercise.repsMax

\* what the statement expects of the drop-set scheme for a top record
ExpectedDrop(top) ==
    IF top.reps >= dayExercise.repsMax /\ top.repQuality # "sloppy"
    THEN [type |-> "add_weight", targetWeight |-> top.weightKg + 125,
          confidence |-> "medium"]
    ELSE [type |-> "maintain", confidence |-> "high"]

\* C11: under DROP_SETS with a top record, the result depends on the first
\* top record and repsMax alone: a single add_weight with targetWeight =
\* weight + 1.25 kg, confidence medium, when its reps >= repsMax and it is
\* not sloppy, else a single maintain, confidence high, without targets.
\* Drop and other records never change it.
C11_DropSets ==
    (Returned /\ schemeType = "DROP_SETS" /\ Tagged({"top"}) # {})
    => /\ Len(suggestions) = 1
       /\ suggestions[1] = ExpectedDrop(lastPerformance[FirstOf(Tagged({"top"}))])
       /\ suggestions[1].type = "maintain" => NoTargets(suggestions[1])

\* a drop record at repsMax before the top record, which earns add_weight,
\* and a second top record that would not
C11_Witness ==
    /\ Returned /\ schemeType = "DROP_SETS"
    /\ Len(lastPerformance) = 2
    /\ lastPerformance[1].setType = "drop"
    /\ lastPerformance[1].reps < dayExercise.repsMax
    /\ lastPerformance[2].setType = "top"
    /\ lastPerformance[2].reps = dayExercise.repsMax
    /\ suggestions[1].type = "add_weight"

\* maintain although a later top record is at repsMax
C11_WitnessMaintain ==
    /\ Returned /\ schemeType = "DROP_SETS"
    /\ Tagged({"top"}) = {1, 2}
    /\ lastPerformance[1].repQuality = "sloppy"
    /\ lastPerformance[2].repQuality = "clean"
    /\ lastPerformance[2].reps >= dayExercise.repsMax
    /\ suggestions[1].type = "maintain"

\* some record has m reps and none has more
IsMaxReps(m) ==
    /\ \E p \in 1..Len(lastPerformance) : lastPerformance[p].reps = m
    /\ \A p \in 1..Len(lastPerformance) : lastPerformance[p].reps <= m

\* C12: under AMRAP with a non-empty history, whatever the set types and
\* the prescription's rep range: a maximum of 20 reps or more over all
\* records gives a single add_weight, confidence high; otherwise a single
\* add_reps with targetReps = maximum + 1, confidence high.
C12_Amrap ==
    (Returned /\ schemeType = "AMRAP" /\ lastPerformance # <<>>)
    => /\ Len(suggestions) = 1
       /\ suggestions[1].confidence = "high"
       /\ \A m \in 0..(AmrapThreshold + MaxReps) :
            IsMaxReps(m) =>
              IF m >= 20
              THEN suggestions[1].type = "add_weight"
              ELSE /\ suggestions[1].type = "add_reps"
                   /\ suggestions[1].targetReps = m + 1

\* a warmup record with exactly 20 reps after a lower record decides, under
\* a prescription whose repsMax lies far below
C12_Witness ==
    /\ Returned /\ schemeType = "AMRAP"
    /\ Len(lastPerformance) = 2
    /\ lastPerformance[1].reps = 19
    /\ lastPerformance[2].reps = 20
    /\ lastPerformance[2].setType = "warmup"
    /\ dayExercise.repsMax = 2
    /\ suggestions[1].type = "add_weight"

\* a maximum of 19 reps, held by the first record
C12_WitnessAddReps ==
    /\ Returned /\ schemeType = "AMRAP"
    /\ Len(lastPerformance) = 2
    /\ lastPerformance[1].reps = 19
    /\ lastPerformance[2].reps = 18
    /\ suggestions[1].type = "add_reps"
    /\ suggestions[1].targetReps = 20

\* C13: under REST_PAUSE with one or more rest_pause records, only the first
\* of them in input order counts: the result is a single add_reps with
\* targetReps = its reps + 1, confidence high.
C13_RestPause ==
    (Returned /\ schemeType = "REST_PAUSE" /\ Tagged({"rest_pause"}) # {})
    => /\ Len(suggestions) = 1
       /\ suggestions[1].type = "add_reps"
       /\ suggestions[1].targetReps =
            lastPerformance[FirstOf(Tagged({"rest_pause"}))].reps + 1
       /\ suggestions[1].confidence = "high"
       /\ ~Has(suggestions[1], "targetWeight")

\* two rest_pause records of different reps, the second one higher
C13_Witness ==
    /\ Returned /\ schemeType = "REST_PAUSE"
    /\ Tagged({"rest_pause"}) = {1, 2}
    /\ lastPerformance[1].reps < lastPerformance[2].reps
    /\ suggestions[1].targetReps = lastPerformance[1].reps + 1

\* positions of the records that carry the cluster modifier
ClusterPositions ==
    {p \in 1..Len(lastPerformance) :
        \E k \in 1..Len(lastPerformance[p].modifiers) :
            lastPerformance[p].modifiers[k] = "cluster"}

\* C14: under CLUSTER_SET with a cluster-tagged record, the result is a
\* single add_reps, confidence medium, with targetReps = the sum of the
\* reps of exactly the cluster-tagged records + 5.
C14_Cluster ==
    (Returned /\ schemeType = "CLUSTER_SET" /\ ClusterPositions # {})
    => /\ Len(suggestions) = 1
       /\ suggestions[1].type = "add_reps"
       /\ suggestions[1].confidence = "medium"
       /\ suggestions[1].targetReps = RepsAt(ClusterPositions) + 5

\* a record without the tag, with reps, next to a tagged one
C14_Witness ==
    /\ Returned /\ schemeType = "CLUSTER_SET"
    /\ Len(lastPerformance) = 2
    /\ ClusterPositions = {2}
    /\ lastPerformance[1].reps > 0
    /\ lastPerformance[2].modifiers = <<"paused", "cluster">>
    /\ suggestions[1].targetReps = lastPerformance[2].reps + 5

\* C15: PYRAMID_UP returns exactly the list that DOUBLE_PROGRESSION returns
\* on the same lastPerformance and prescription.
C15_PyramidAsDouble ==
    (Returned /\ schemeType = "PYRAMID_UP")
    => suggestions =
         suggestProgression("DOUBLE_PROGRESSION", lastPerformance, dayExercise, baseline)

\* a PYRAMID_UP call that returns the add_weight of the double progression
C15_Witness ==
    /\ Returned /\ schemeType = "PYRAMID_UP"
    /\ Cardinality(WorkingPositions) = 2
    /\ AllAtMaxAndNotSloppy
    /\ Len(suggestions) = 1
    /\ suggestions[1].type = "add_weight"
    /\ suggestions[1].targetReps = dayExercise.repsMin

\* C16: a call to suggestProgression, for any scheme, leaves its inputs as
\* they were: lastPerformance holds the same records in the same order with
\* the same field values, also under DYNAMIC_DOUBLE_PROGRESSION which sorts
\* by set number, and the prescription and the baselines are not modified.
C16_InputsUnchanged ==
    [][(pc = "input" /\ pc' = "done")
       => /\ lastPerformance' = lastPerformance
          /\ dayExercise' = dayExercise
          /\ baseline' = baseline]_vars

\* a dynamic double progression call has returned one suggestion per record
\* and the records it was given are still in descending set number order
C16_Witness ==
    /\ Returned /\ schemeType = "DYNAMIC_DOUBLE_PROGRESSION"
    /\ Len(lastPerformance) = 2
    /\ lastPerformance[1].setNumber > lastPerformance[2].setNumber
    /\ \A p \in 1..2 : lastPerformance[p].setType \in {"working", "top"}
    /\ Len(suggestions) = 2
    /\ suggestions[1].targetWeight = lastPerformance[2].weightKg + 250

\* the stored set logs of a prescription
LogsOf(dayExerciseId) ==
    {r \in dbSetLogs : r.dayExerciseId = dayExerciseId}

\* the session in which a prescription was exercised last
LastSessionOf(dayExerciseId) ==
    (CHOOSE r \in LogsOf(dayExerciseId) :
        \A q \in LogsOf(dayExerciseId) : q.timestamp <= r.timestamp).sessionId

\* C17: whenever no write is under way, for every prescription
\* getLastSetsForExercise returns the set logs of the most recent session in
\* which that prescription was exercised, ordered by set number, and an
\* empty list only if the prescription was never exercised; also when the
\* same exercise is prescribed on another day that was trained later.
C17_LastSetsOfPrescription ==
    savePc = "idle" =>
      \A i \in 1..Len(dayExercisesPlanA) :
         LET de   == dayExercisesPlanA[i]
             last == getLastSetsForExercise(dbSetLogs, de.exerciseId, de.id)
         IN  /\ (last = <<>>) <=> (LogsOf(de.id) = {})
             /\ LogsOf(de.id) # {} =>
                  /\ {last[k] : k \in 1..Len(last)} =
                       {r \in LogsOf(de.id) : r.sessionId = LastSessionOf(de.id)}
                  /\ \A k \in 1..(Len(last) - 1) :
                        last[k].setNumber < last[k + 1].setNumber

\* positions in sessionSets of the sets of a prescription
SetsOf(dayExerciseId) ==
    {p \in 1..Len(sessionSets) : sessionSets[p].dayExerciseId = dayExerciseId}

\* C18: after any sequence of addSet, updateSet and deleteSet in an active
\* session, the set numbers of the n logged sets of every prescription are
\* exactly 1..n, without duplicates or gaps, and increase in creation order
\* (the order in which uuid() handed out the ids).
C18_SetNumbersContiguous ==
    \A i \in 1..Len(dayExercisesPlanA) :
       LET ps == SetsOf(dayExercisesPlanA[i].id)
       IN  /\ {sessionSets[p].setNumber : p \in ps} = 1..Cardinality(ps)
           /\ \A p \in ps, q \in ps :
                 (sessionSets[p].id < sessionSets[q].id)
                    <=> (sessionSets[p].setNumber < sessionSets[q].setNumber)

\* in the first session three sets of one prescription were added, the
\* first one was saved with new values, which the second one copied, and
\* then deleted; the two left, the last of them saved, are numbered 1 and 2
C18_Witness ==
    /\ activeSession # <<>>
    /\ activeSession[1].id = 1
    /\ Len(sessionSets) = 2
    /\ sessionSets[1].dayExerciseId = sessionSets[2].dayExerciseId
    /\ sessionSets[1].id = 3
    /\ sessionSets[2].id = 4
    /\ sessionSets[1].weightKg = 6250
    /\ sessionSets[1].repQuality = "ok"
    /\ sessionSets[1].setNumber = 1
    /\ sessionSets[2].setNumber = 2
    /\ sessionSets[2].repQuality = "clean"

\* sets of two prescriptions of one day, after the first set of the session
\* was deleted
C18_WitnessTwoPrescriptions ==
    /\ activeSession # <<>>
    /\ activeSession[1].dayId = "day-a2"
    /\ Len(sessionSets) = 2
    /\ sessionSets[1].dayExerciseId # sessionSets[2].dayExerciseId
    /\ sessionSets[1].id = activeSession[1].id + 2
    /\ sessionSets[1].setNumber = 1

\* C19: any two sets that addSet has put into the session for the same
\* prescription have distinct set numbers, also when an addSet ran before
\* the state set by the previous handler was rendered.
C19_DistinctSetNumbers ==
    \A p \in 1..Len(sessionSets), q \in 1..Len(sessionSets) :
       (p # q /\ sessionSets[p].dayExerciseId = sessionSets[q].dayExerciseId)
       => sessionSets[p].setNumber # sessionSets[q].setNumber

\* C20: whenever no handler is suspended at a write, the store holds a
\* session together with its set logs or neither: every stored session has
\* stored set logs and every stored set log belongs to a stored session.
C20_AtomicCompletion ==
    savePc = "idle" =>
      /\ \A session \in dbSessions : \E r \in dbSetLogs : r.sessionId = session.id
      /\ \A r \in dbSetLogs : \E session \in dbSessions : session.id = r.sessionId

\* the statistics helpers have returned
Calculated == statResult # <<>>

\* the net load of the record at a position
NetLoad(p) == statSets[p].weightKg + statSets[p].externalLoadKg

RECURSIVE VolumeAt(_)
VolumeAt(positions) ==
    IF positions = {} THEN 0
    ELSE LET p == CHOOSE x \in positions : TRUE
         IN  NetLoad(p) * statSets[p].reps + VolumeAt(positions \ {p})

\* C22: calculateVolume of a list is the sum over its records of
\* (weightKg + externalLoadKg) * reps, the external load being added before
\* the multiplication, so that a record of negative net load contributes a
\* negative term; it is 0 for the empty list.
C22_Volume ==
    Calculated =>
      /\ statResult[1].volume = VolumeAt(1..Len(statSets))
      /\ statSets = <<>> => statResult[1].volume = 0

\* 50 kg x reps and an assisted set of -5 kg net x reps, both with reps
C22_Witness ==
    /\ Calculated
    /\ Len(statSets) = 2
    /\ NetLoad(1) = 5000 /\ statSets[1].reps = MaxReps
    /\ NetLoad(2) = -500 /\ statSets[2].reps = 2
    /\ statResult[1].volume = 5000 * MaxReps - 1000

\* the empty list
C22_WitnessEmpty ==
    Calculated /\ statSets = <<>> /\ statResult[1].volume = 0

\* 30 times the e1RM of the record at a position
ThirtyE1RM(p) ==
    IF statSets[p].reps = 1 THEN 30 * NetLoad(p)
    ELSE NetLoad(p) * (30 + statSets[p].reps)

\* the first position that holds the maximal e1RM
FirstBest ==
    CHOOSE p \in 1..Len(statSets) :
        /\ \A q \in 1..Len(statSets) : ThirtyE1RM(q) <= ThirtyE1RM(p)
        /\ \A q \in 1..(p - 1) : ThirtyE1RM(q) < ThirtyE1RM(p)

\* C23: getBestSet returns null for the empty list and otherwise a record
\* of the input whose e1RM on (weightKg + externalLoadKg, reps) is maximal,
\* the first one in input order when several records share the maximum.
C23_BestSet ==
    Calculated =>
      IF statSets = <<>> THEN statResult[1].bestSet = <<>>
      ELSE statResult[1].bestSet = <<statSets[FirstBest]>>

\* two different records of equal e1RM (reps 0 and reps 1 at one weight)
C23_Witness ==
    /\ Calculated
    /\ Len(statSets) = 2
    /\ statSets[1] # statSets[2]
    /\ ThirtyE1RM(1) = ThirtyE1RM(2)
    /\ statResult[1].bestSet = <<statSets[1]>>

\* the later record is better
C23_WitnessLater ==
    /\ Calculated
    /\ Len(statSets) = 2
    /\ ThirtyE1RM(1) < ThirtyE1RM(2)
    /\ statResult[1].bestSet = <<statSets[2]>>

\* C24: calculateE1RM(weight, reps) is weight when reps = 1 and
\* weight * (1 + reps / 30) for every other rep count, that is
\* 30 * e1RM = weight * (30 + reps); reps = 0 gives weight; and for a
\* weight >= 0 the value does not fall when reps grow by one.
C24_E1RM ==
    Calculated =>
      \A p \in 1..Len(statSets) :
         LET e == statResult[1].e1RM[p]
         IN  /\ e[2] > 0
             /\ statSets[p].reps = 1 => e[1] = NetLoad(p) * e[2]
             /\ statSets[p].reps # 1 =>
                  30 * e[1] = NetLoad(p) * (30 + statSets[p].reps) * e[2]
             /\ statSets[p].reps = 0 => e[1] = NetLoad(p) * e[2]
             /\ NetLoad(p) >= 0 =>
                  \A r \in 0..MaxReps :
                     ~RatGreater(calculateE1RM(NetLoad(p), r),
                                 calculateE1RM(NetLoad(p), r + 1))

\* 100 kg for one rep is 100 kg, next to a record with more reps
C24_Witness ==
    /\ Calculated
    /\ Len(statSets) = 2
    /\ NetLoad(1) = 10000 /\ statSets[1].reps = 1
    /\ statResult[1].e1RM[1] = <<10000, 1>>
    /\ statSets[2].reps = MaxReps
    /\ 30 * statResult[1].e1RM[2][1]
         = NetLoad(2) * (30 + MaxReps) * statResult[1].e1RM[2][2]

\* the backoff records that are not sloppy, as positions in input order
RECURSIVE InOrder(_)
InOrder(positions) ==
    IF positions = {} THEN <<>>
    ELSE <<FirstOf(positions)>> \o InOrder(positions \ {FirstOf(positions)})

ScoredBackoffs ==
    InOrder({p \in BackoffPositions : lastPerformance[p].repQuality # "sloppy"})

\* C25: the TOP_SET_BACKOFF_TRIPLE result lists the top-set suggestion
\* first, with setNumber 1, when a top record exists, wherever that record
\* stands in the input; the backoff suggestions follow in strictly ascending
\* setNumber order, each with setNumber = 2 + the 0-based position of its
\* record among the backoff records of the input.
C25_TripleOrder ==
    (Returned /\ schemeType = "TOP_SET_BACKOFF_TRIPLE" /\ lastPerformance # <<>>)
    => /\ Tagged({"top"}) # {} =>
            /\ Len(suggestions) >= 1
            /\ suggestions[1].setNumber = 1
       /\ Len(BackoffPart) = Len(ScoredBackoffs)
       /\ \A i \in 1..Len(BackoffPart) :
            BackoffPart[i].setNumber = 2 + BackoffIndex(ScoredBackoffs[i])
       /\ \A i \in 1..(Len(BackoffPart) - 1) :
            BackoffPart[i].setNumber < BackoffPart[i + 1].setNumber

\* the top record comes after a backoff record in the input and its
\* suggestion comes first
C25_Witness ==
    /\ Returned /\ schemeType = "TOP_SET_BACKOFF_TRIPLE"
    /\ Len(lastPerformance) = 2
    /\ lastPerformance[1].setType = "backoff"
    /\ lastPerformance[1].repQuality # "sloppy"
    /\ lastPerformance[2].setType = "top"
    /\ Len(suggestions) = 2
    /\ suggestions[1].setNumber = 1
    /\ suggestions[2].setNumber = 2

\* a sloppy backoff record is skipped and the next one keeps its number 3
C25_WitnessSkipped ==
    /\ Returned /\ schemeType = "TOP_SET_BACKOFF_TRIPLE"
    /\ BackoffPositions = {1, 2}
    /\ lastPerformance[1].repQuality = "sloppy"
    /\ lastPerformance[2].repQuality = "clean"
    /\ suggestions # <<>>
    /\ suggestions[1].setNumber = 3

\* the prescriptions whose first quick-added set is tagged top
TopSetPrescriptions ==
    {i \in 1..Len(dayExercisesPlanA) :
        dayExercisesPlanA[i].schemeType \in {"TOP_SET_BACKOFF_TRIPLE", "DROP_SETS"}}

\* the sets of a list that belong to a prescription and are tagged top
TopsIn(list, dayExerciseId) ==
    {p \in 1..Len(list) : /\ list[p].dayExerciseId = dayExerciseId
                          /\ list[p].setType = "top"}

\* C26: in a workout session, after any sequence of quick-add, save and
\* delete operations, at most one logged set of a TOP_SET_BACKOFF_TRIPLE or
\* DROP_SETS prescription is tagged top, and so the records that
\* getLastSetsForExercise later hands to the engine hold at most one top
\* record.
C26_AtMostOneTop ==
    \A i \in TopSetPrescriptions :
       LET de == dayExercisesPlanA[i]
       IN  /\ Cardinality(TopsIn(sessionSets, de.id)) <= 1
           /\ savePc = "idle" =>
                Cardinality(TopsIn(getLastSetsForExercise(dbSetLogs, de.exerciseId, de.id),
                                   de.id)) <= 1

\* the top set of the triple progression was deleted while a backoff set
\* was left, and the set added after that is a backoff set again
C26_Witness ==
    /\ activeSession # <<>>
    /\ activeSession[1].id = 1
    /\ Len(sessionSets) = 2
    /\ \A p \in 1..2 : /\ sessionSets[p].dayExerciseId = dayExercisesPlanA[1].id
                       /\ sessionSets[p].setType = "backoff"
    /\ sessionSets[1].id = 3
    /\ sessionSets[2].id = 4

\* a stored drop-set session with its top set and a drop set
C26_WitnessStored ==
    /\ savePc = "idle"
    /\ LET last == getLastSetsForExercise(dbSetLogs, "lateral-cable",
                                          dayExercisesPlanA[4].id)
       IN  /\ Len(last) = 2
           /\ last[1].setType = "top"
           /\ last[2].setType = "drop"

\* the phase the statement gives a week: 1 for 1-4, 2 for 5-8, 3 for 9-12
ExpectedPhase(week) == (week - 1) \div 4 + 1

\* the week after n advances
RECURSIVE AdvancedBy(_, _)
AdvancedBy(week, n) ==
    IF n = 0 THEN week ELSE AdvancedBy(NextWeekOf(week), n - 1)

WeekAndPhaseAgree(row) ==
    /\ row # <<>>
    /\ row[1].currentWeek \in 1..12
    /\ row[1].currentPhase = ExpectedPhase(row[1].currentWeek)

\* C27: from the seeded settings (week 1, phase 1), across every week
\* selection, advance and confirmed restart, currentWeek stays in 1..12 and
\* currentPhase is 1 for weeks 1-4, 2 for weeks 5-8 and 3 for weeks 9-12; an
\* advance from week 12 gives week 1, and twelve advances in a row lead back
\* to the week they started from.
C27_WeekAndPhase ==
    [][/\ WeekAndPhaseAgree(settings)
       /\ WeekAndPhaseAgree(settings')
       /\ (handleAdvanceWeek /\ settings[1].currentWeek = 12)
             => settings'[1].currentWeek = 1
       /\ handleAdvanceWeek
             => /\ settings'[1].currentWeek = AdvancedBy(settings[1].currentWeek, 1)
                /\ AdvancedBy(settings'[1].currentWeek, 11) = settings[1].currentWeek
       /\ (handleRestartProgram /\ showResetConfirm)
             => settings'[1].currentWeek = 1]_vars

\* week 12 in phase 3, from where the next advance wraps around
C27_Witness ==
    /\ settings # <<>>
    /\ settings[1].currentWeek = 12
    /\ settings[1].currentPhase = 3

\* the last week of the first phase, with a restart waiting for confirmation
C27_WitnessPhaseEnd ==
    /\ settings # <<>>
    /\ settings[1].currentWeek = 4
    /\ settings[1].currentPhase = 1
    /\ showResetConfirm

\* C29: the currentPhaseReps of every stored prescription is the rep target
\* of the active phase (12, 8 and 5 reps for phases 1, 2 and 3), also after a
\* week change that moves the program into another phase.
C29_PhaseRepsFollowPhase ==
    settings # <<>> =>
      \A de \in dbDayExercises :
         de.currentPhaseReps = PhaseReps(settings[1].currentPhase)

\* the timer has run out: seconds >= target and active = false
TimerComplete ==
    /\ ~restTimer.active
    /\ restTimer.seconds >= restTimer.target

\* C28: a rest timer that was started and is not stopped manually
\* completes, whatever +15s / -15s adjustments come between its ticks.  In
\* the form a finite run refutes: an active timer always has its next tick
\* ahead (seconds < target), for with seconds >= target the effect sets no
\* interval and active can no longer become false without a manual stop.
C28_TimerCompletes ==
    restTimer.active => restTimer.seconds < restTimer.target

\* the statement as a leads-to, for the timer that is never stopped
C28_TimerCompletesEventually ==
    restTimer.active ~> TimerComplete

\* the store holds no seed data at all
NoSeedData ==
    /\ dbCatalog = EmptyCatalog
    /\ dbDayExercises = {}
    /\ settings = <<>>

\* the store holds one complete copy of the seed data
OneSeedCopy ==
    /\ dbCatalog = SeedCatalog
    /\ dbDayExercises = {dayExercisesPlanA[i] : i \in 1..Len(dayExercisesPlanA)}
    /\ settings = <<SeededSettings>>

\* C30: after any number of repeated or interleaved app initialisations the
\* store holds no seed data or exactly one complete copy of it, with one
\* default settings row, and no initialisation has ended in an error.
C30_SeededOnce ==
    /\ NoSeedData \/ OneSeedCopy
    /\ \A p \in Instances : initPc[p] # "error"

\* the rows of the backup file of the last import, as the store holds them
ImportedData ==
    LET file == importFile[1]
    IN  [catalog |-> [t \in CatalogTables |-> SeqRange(file.catalog[t])],
         dayExercises |-> SeqRange(file.dayExercises), settings |-> file.settings,
         sessions |-> SeqRange(file.sessions), setLogs |-> SeqRange(file.setLogs)]

\* C21: when an import has ended in a failure (wrong version, malformed
\* data, or a storage error) the store holds what it held when the import
\* began; when it has ended in success the store holds the rows of the file.
C21_ImportAllOrNothing ==
    (importPc = "idle" /\ importBefore # <<>>) =>
        /\ importStatus = "Import failed" => Persisted = importBefore[1]
        /\ importStatus = "Import complete! Refreshing..." => Persisted = ImportedData

====
